---- MODULE Spec2Model ----
(***************************************************************************)
(* Streaming conformance harness of the ceda repository (cocotb tests of   *)
(* the Gaussian stage, the NMS stage, the real-image regression and the    *)
(* Sobel filter).  The pipeline under test is a black box: at every clock  *)
(* edge it picks new values for the signals it drives.  One action is one  *)
(* pass of a harness loop: the code before the edge, the edge, the code    *)
(* after it.                                                               *)
(***************************************************************************)
EXTENDS Integers, Sequences, FiniteSets, TLC

\* ---------------------------------------------------------------- bounds
MaxW == 2
MaxH == 2
MaxCycles == 4
\* The whole-run specification: frame size and beats the pipeline may emit.
RunMaxW == 2
RunMaxH == 1
MaxBeats == 2
\* The alignment specification: the longest stream.
AlignMaxLen == 3

\* ------------------------------------------------------- signal values
\* A signal holds 0, 1, a data integer, or the unresolved value X (x/z).
X == 0 - 1
\* _try_int's result for an unresolved value.
None == 0 - 2

Harnesses == {"gauss", "nms", "real", "sobel"}

\* int(v) succeeds exactly on a resolved value (ValueError otherwise).
Resolved(v) == v # X

\* `v == 1` on a signal value: false, not an exception, when unresolved.
IsOne(v) == v = 1

\* _try_int(v)
TryInt(v) == IF Resolved(v) THEN v ELSE None

\* _pack_pixel(mag, direction)
PackPixel(mag, direction) == direction * 4096 + mag

\* ---------------------------------------------------------------- state
VARIABLES
    harness,        \* which test drives the pipeline
    img_width,      \* frame width W
    img_height,     \* frame height H
    image,          \* image[r][c], the frame (mag_image for NMS)
    dir_image,      \* NMS: the direction tag of every pixel
    horizon,        \* how the pipeline's behaviour is bounded: "edges" or "beats"
    dut,            \* the signals of the pipeline under test
    pc,             \* position of the test coroutine
    err,            \* the exception that ended the run, or "none"
    row, col,       \* Gaussian stage / NMS send_frame loop position
    i,              \* real-image loop index
    sent,           \* Sobel: pixels the driver believes were accepted
    outputs,        \* the captured output stream
    m_tlast_count,  \* Gaussian stage: end-of-line markers seen
    m_tuser_count,  \* Gaussian stage: start-of-frame markers seen
    flush_cycles,   \* Gaussian stage: drain edges so far
    frame_done,     \* Gaussian stage: drain completion flag
    idle_left,      \* NMS: edges left in the running sample_idle call
    idle_call,      \* NMS: 0 streaming, 1 drain call, 2 quiet call
    start_len,      \* NMS: len(outputs) when the running sample_idle call began
    cycle,          \* clock edges the harness loops have waited for
    accepted,       \* the input beats the pipeline took (valid and ready at an edge)
    written,        \* the signals the stimulus driver has assigned
    expected_flat,  \* real-image: the reference stream (golden model output)
    max_offset,     \* _best_alignment_offset: the largest offset to search
    sample_len,     \* _best_alignment_offset: the requested window length
    offset,         \* the offset the alignment search returned
    align_err,      \* the error the alignment search returned
    use_rounding,   \* golden model: the rounding flag of the call
    result,         \* golden model: what the call returned
    pixels,         \* PE chain test: the pixel operands
    coeffs,         \* PE chain test: the coefficient operands
    running_sum,    \* PE chain test: the accumulator read back so far
    recorder        \* traced_test: the CycleTraceRecorder and what became of the body

vars == <<harness, img_width, img_height, image, dir_image, horizon, dut, pc, err, row,
          col, i, sent, outputs, m_tlast_count, m_tuser_count, flush_cycles, frame_done,
          idle_left, idle_call, start_len, cycle, accepted, written, expected_flat,
          max_offset, sample_len, offset, align_err, use_rounding, result, pixels,
          coeffs, running_sum, recorder>>

config == <<harness, img_width, img_height, image, dir_image, horizon>>
gaussLocals == <<m_tlast_count, m_tuser_count, flush_cycles, frame_done>>
nmsLocals == <<idle_left, idle_call, start_len>>
alignVars == <<expected_flat, max_offset, sample_len, offset, align_err>>
modelVars == <<use_rounding, result, pixels, coeffs, running_sum>>

expected_pixels == img_width * img_height

\* ------------------------------------------------------------- the frame
\* The test image: a frame whose samples are pairwise different, so that a
\* sample names its pixel.
RampImage(w, h) == [r \in 0..(h - 1) |-> [c \in 0..(w - 1) |-> 10 * r + c + 1]]

\* The direction image: every direction tag occurs (as in the random
\* dir_image of test_nms_stream_integrity_waveform).
DirPattern(w, h) == [r \in 0..(h - 1) |-> [c \in 0..(w - 1) |-> (r + c + 1) % 4]]

\* image.reshape(-1)[k]
Flat(img, w, k) == img[k \div w][k % w]

\* ------------------------------------------------- the pipeline under test
\* Values the pipeline may present on s_tready after an edge, and when it
\* comes out of reset (where the signal may still be unresolved).
ReadyVals == {0, 1}
ResetReadyVals == {0, 1, X}

\* The sample the pipeline presents on m_tdata in a given cycle: 8 bits wide
\* in the Gaussian stage, wider in the NMS and Sobel pipelines.
DutData(h, c) == IF h \in {"gauss", "real"} THEN (250 + 3 * c) % 256 ELSE 250 + 3 * c

OutVec(v, d, l, u) == [m_tvalid |-> v, m_tdata |-> d, m_tlast |-> l, m_tuser |-> u]

IdleVec == OutVec(0, 0, 0, 0)

\* What the pipeline may present on its output port after an edge: nothing, a
\* beat with any sideband flags, a sideband flag without valid, or an
\* unresolved valid, data, last or user.
OutVecs(h, c) ==
    {IdleVec}
    \cup {OutVec(1, DutData(h, c), l, u) : l \in {0, 1}, u \in {0, 1}}
    \cup {OutVec(0, 0, 1, 0), OutVec(0, 0, 0, 1)}
    \cup {OutVec(X, 0, 0, 0), OutVec(1, X, 0, 0),
          OutVec(1, DutData(h, c), X, 0), OutVec(1, DutData(h, c), 0, X)}

\* What the pipeline may present when its behaviour is bounded by the number
\* of beats it emits instead of by the number of clock edges: nothing, or,
\* while fewer than MaxBeats beats were captured, a beat with any flags.
BeatVecs(h, n) ==
    {IdleVec}
    \cup (IF n < MaxBeats
          THEN {OutVec(1, DutData(h, n), l, u) : l \in {0, 1}, u \in {0, 1}}
          ELSE {})

\* How the pipeline's behaviour is bounded.  "edges": any behaviour, over
\* MaxCycles clock edges.  "beats": any ready and at most MaxBeats output
\* beats, over any number of edges (which are not counted, so that the run
\* can go on as long as the harness waits).  "stalled": the pipeline never
\* raises ready and emits nothing (cycle is then the parity of the edges).

\* The output vectors of the pipeline at the coming edge.
EnvOutVecs ==
    IF horizon = "edges" THEN OutVecs(harness, cycle)
    ELSE IF horizon = "beats" THEN BeatVecs(harness, Len(outputs))
    ELSE {IdleVec}

\* The ready values of the pipeline at the coming edge.  Under the "beats"
\* horizon ready stays high once the stimulus loop is left (no harness reads
\* it from then on).
EnvReadyVals ==
    IF horizon = "edges" THEN ReadyVals
    ELSE IF horizon = "beats" THEN (IF pc = "stream" THEN ReadyVals ELSE {1})
    ELSE {0}

\* Whether the harness may wait for a further edge, and the edge count after it.
EdgeAllowed == horizon # "edges" \/ cycle < MaxCycles
NextCycle ==
    IF horizon = "edges" THEN cycle + 1
    ELSE IF horizon = "beats" THEN cycle
    ELSE 1 - cycle

\* A transfer on the input port: valid and ready both hold at the edge.
DutAccepts(d) == d.s_tvalid = 1 /\ d.s_tready = 1

\* The input beat on the wires, as the pipeline takes it; k is the pixel the
\* driver was presenting.
InputBeat(d, k) == [data |-> d.s_tdata, last |-> d.s_tlast, user |-> d.s_tuser, px |-> k]

AcceptAtEdge(d, k, acc) == IF DutAccepts(d) THEN Append(acc, InputBeat(d, k)) ELSE acc

\* The signals after an edge: the pipeline's outputs change, the harness's stay.
DutStep(d, rdy, o) ==
    [d EXCEPT !.s_tready = rdy, !.m_tvalid = o.m_tvalid, !.m_tdata = o.m_tdata,
              !.m_tlast = o.m_tlast, !.m_tuser = o.m_tuser]

\* --------------------------------------------------------- initial state
Undriven ==
    [rst_n |-> X, s_tdata |-> X, s_tvalid |-> X, s_tlast |-> X, s_tuser |-> X,
     m_tready |-> X, s_tready |-> X, m_tvalid |-> X, m_tdata |-> X, m_tlast |-> X,
     m_tuser |-> X]

\* The values a trace sample holds: what json.dump writes for an int and
\* for a str.
JsonInt(v) == [kind |-> "int", int |-> v, str |-> ""]
JsonStr(t) == [kind |-> "str", int |-> 0, str |-> t]

\* No trace file was written; the test body has not ended.
NoFile == [written |-> FALSE, signals |-> <<>>, samples |-> <<>>]
NoOutcome == [kind |-> "running", value |-> None, failure |-> "none"]

\* CycleTraceRecorder.__init__ for the names and the directory given.
CycleTraceRecorder(names, dir) ==
    [signal_names |-> names, trace_dir |-> dir, samples |-> <<>>, cycle |-> 0,
     task |-> "none", trace_file |-> NoFile, body |-> NoOutcome]

\* The recorder where it is left out: the specifications of the test bodies
\* and of the functions they call.
NoRecorder == CycleTraceRecorder(<<>>, "")

\* No call of the golden model and no PE chain is under way.
ModelIdle ==
    /\ use_rounding = TRUE /\ result = None
    /\ pixels = <<>> /\ coeffs = <<>> /\ running_sum = 0
    /\ recorder = NoRecorder

\* The state before the test resets the pipeline, for the frame sizes and
\* the horizons given.
Boot(horizons, max_width, max_height) ==
    /\ harness \in Harnesses
    /\ img_width \in 1..max_width
    /\ img_height \in 1..max_height
    /\ image = RampImage(img_width, img_height)
    /\ dir_image = DirPattern(img_width, img_height)
    /\ horizon \in horizons
    /\ dut = Undriven
    /\ pc = "idle"
    /\ err = "none"
    /\ row = 0 /\ col = 0 /\ i = 0 /\ sent = 0
    /\ outputs = <<>>
    /\ m_tlast_count = 0 /\ m_tuser_count = 0 /\ flush_cycles = 0 /\ frame_done = FALSE
    /\ idle_left = 0 /\ idle_call = 0 /\ start_len = 0
    /\ cycle = 0
    /\ accepted = <<>>
    /\ written = {}
    /\ expected_flat = <<>>
    /\ max_offset = 0 /\ sample_len = 0
    /\ offset = 0 /\ align_err = None
    /\ ModelIdle

Init == Boot({"edges"}, MaxW, MaxH)

\* -------------------------------------------------------------- reset
\* reset_dut / _reset_dut and the Sobel test's reset sequence: the harness
\* drives its signals to idle, holds reset over some edges, releases it.
ResetSignals(d) ==
    [d EXCEPT !.rst_n = 1, !.s_tdata = 0, !.s_tvalid = 0, !.s_tlast = 0,
              !.s_tuser = 0, !.m_tready = 1]

ResetDut ==
    /\ pc = "idle"
    /\ \E rdy \in ResetReadyVals :
         dut' = DutStep(ResetSignals(dut), rdy, IdleVec)
    /\ pc' = "reset_done"
    /\ UNCHANGED <<config, recorder, modelVars, alignVars, err, row, col, i, sent, outputs, gaussLocals, nmsLocals,
                   cycle, accepted, written>>

\* ------------------------------------------------------ stimulus drivers
InputPort == {"s_tdata", "s_tvalid", "s_tlast", "s_tuser"}

Bit(b) == IF b THEN 1 ELSE 0

\* Mutant of GaussDrive: the end-of-line test is off by one column.
GaussDriveLastOffByOne(d, img, r, c, w) ==
    [d EXCEPT !.s_tdata = img[r][c], !.s_tvalid = 1,
              !.s_tlast = Bit(c = w), !.s_tuser = Bit(r = 0 /\ c = 0)]

\* Gaussian stage send_frame: the four assignments that drive pixel (r, c).
GaussDrive(d, img, r, c, w) ==
    [d EXCEPT !.s_tdata = img[r][c], !.s_tvalid = 1,
              !.s_tlast = Bit(c = w - 1), !.s_tuser = Bit(r = 0 /\ c = 0)]

\* NMS send_frame: the four assignments that drive pixel (r, c).
NmsDrive(d, mag, dirs, r, c, w) ==
    [d EXCEPT !.s_tdata = PackPixel(mag[r][c], dirs[r][c]), !.s_tvalid = 1,
              !.s_tuser = Bit(r = 0 /\ c = 0), !.s_tlast = Bit(c = w - 1)]

\* Mutant of Deassert: only valid goes low.
DeassertValidOnly(d) == [d EXCEPT !.s_tvalid = 0]

\* The three assignments after the frame: valid, user and last go low.
Deassert(d) == [d EXCEPT !.s_tvalid = 0, !.s_tuser = 0, !.s_tlast = 0]

\* Mutant of BeatWillBeAccepted: the loop is left after one edge, ready or not.
BeatAlwaysAccepted(ready) == TRUE

\* Leaving the inner `while True` loop: the ready value read before the edge.
BeatWillBeAccepted(ready) == ready = 1

\* The nested `for row ... for col ...` loops: the position after (r, c).
NextPos(r, c, w) == IF c + 1 < w THEN <<r, c + 1>> ELSE <<r + 1, 0>>

Fail(e) == pc' = "failed" /\ err' = e

\* ------------------------------------------------ Gaussian stage harness
\* Mutant of MaxFlushCycles: the floor is one edge larger.
MaxFlushCyclesLoose(expected_outputs) == (expected_outputs * 16) + 1025

\* max_flush_cycles
MaxFlushCycles(expected_outputs) == (expected_outputs * 16) + 1024

\* Mutant of GaussCapture: the markers are counted on every edge, captured
\* beat or not.
GaussCaptureCountsIdle(d, out, lc, uc) ==
    [err |-> "none", out |-> out, lc |-> lc + Bit(d.m_tlast = 1),
     uc |-> uc + Bit(d.m_tuser = 1), last_hit |-> d.m_tlast = 1]

\* The capture block after an edge: append on m_tvalid == 1, then count the
\* markers; int() of an unresolved value raises at that point, keeping what
\* the statements before it did.
GaussCapture(d, out, lc, uc) ==
    IF ~IsOne(d.m_tvalid)
    THEN [err |-> "none", out |-> out, lc |-> lc, uc |-> uc, last_hit |-> FALSE]
    ELSE IF ~Resolved(d.m_tdata)
    THEN [err |-> "ValueError", out |-> out, lc |-> lc, uc |-> uc, last_hit |-> FALSE]
    ELSE LET out1 == Append(out, d.m_tdata) IN
         IF ~Resolved(d.m_tlast)
         THEN [err |-> "ValueError", out |-> out1, lc |-> lc, uc |-> uc,
               last_hit |-> FALSE]
         ELSE LET lc1 == lc + Bit(d.m_tlast = 1) IN
              IF ~Resolved(d.m_tuser)
              THEN [err |-> "ValueError", out |-> out1, lc |-> lc1, uc |-> uc,
                    last_hit |-> d.m_tlast = 1]
              ELSE [err |-> "none", out |-> out1, lc |-> lc1,
                    uc |-> uc + Bit(d.m_tuser = 1), last_hit |-> d.m_tlast = 1]

\* test_gaussian_stage_small_frame sets m_tready and calls send_frame, which
\* drives the first beat.
GaussStart ==
    /\ harness = "gauss" /\ pc = "reset_done"
    /\ dut' = GaussDrive([dut EXCEPT !.m_tready = 1], image, 0, 0, img_width)
    /\ pc' = "stream"
    /\ row' = 0 /\ col' = 0
    /\ outputs' = <<>>
    /\ m_tlast_count' = 0 /\ m_tuser_count' = 0
    /\ written' = written \cup InputPort
    /\ UNCHANGED <<config, recorder, modelVars, alignVars, err, i, sent, flush_cycles, frame_done, nmsLocals, cycle,
                   accepted>>

\* One pass of the inner `while True` loop of send_frame.
GaussStreamEdge ==
    /\ harness = "gauss" /\ pc = "stream" /\ EdgeAllowed
    /\ UNCHANGED <<config, recorder, modelVars, alignVars, i, sent, nmsLocals>>
    /\ IF ~Resolved(dut.s_tready)
       THEN /\ Fail("ValueError")
            /\ UNCHANGED <<dut, row, col, outputs, gaussLocals, cycle, accepted, written>>
       ELSE \E rdy \in EnvReadyVals, o \in EnvOutVecs :
              LET beat_will_be_accepted == BeatWillBeAccepted(dut.s_tready)
                  d1 == DutStep(dut, rdy, o)
                  cap == GaussCapture(d1, outputs, m_tlast_count, m_tuser_count)
                  np == NextPos(row, col, img_width)
              IN  /\ cycle' = NextCycle
                  /\ accepted' = AcceptAtEdge(dut, row * img_width + col, accepted)
                  /\ outputs' = cap.out
                  /\ m_tlast_count' = cap.lc
                  /\ m_tuser_count' = cap.uc
                  /\ IF cap.err # "none"
                     THEN /\ Fail(cap.err)
                          /\ dut' = d1
                          /\ UNCHANGED <<row, col, flush_cycles, frame_done, written>>
                     ELSE IF ~beat_will_be_accepted
                     THEN /\ dut' = d1
                          /\ UNCHANGED <<pc, err, row, col, flush_cycles, frame_done,
                                         written>>
                     ELSE IF np[1] < img_height
                     THEN /\ dut' = GaussDrive(d1, image, np[1], np[2], img_width)
                          /\ row' = np[1] /\ col' = np[2]
                          /\ written' = written \cup InputPort
                          /\ UNCHANGED <<pc, err, flush_cycles, frame_done>>
                     ELSE /\ dut' = Deassert(d1)
                          /\ row' = np[1] /\ col' = np[2]
                          /\ pc' = "drain"
                          /\ flush_cycles' = 0 /\ frame_done' = FALSE
                          /\ written' = written \cup {"s_tvalid", "s_tuser", "s_tlast"}
                          /\ UNCHANGED err

\* One pass of the drain loop of send_frame.
GaussDrainEdge ==
    /\ harness = "gauss" /\ pc = "drain" /\ EdgeAllowed
    /\ (~frame_done) /\ flush_cycles < MaxFlushCycles(expected_pixels)
    /\ \E rdy \in EnvReadyVals, o \in EnvOutVecs :
         LET d1 == DutStep(dut, rdy, o)
             cap == GaussCapture(d1, outputs, m_tlast_count, m_tuser_count)
         IN  /\ cycle' = NextCycle
             /\ accepted' = AcceptAtEdge(dut, row * img_width + col, accepted)
             /\ dut' = d1
             /\ flush_cycles' = flush_cycles + 1
             /\ outputs' = cap.out
             /\ m_tlast_count' = cap.lc
             /\ m_tuser_count' = cap.uc
             /\ frame_done' = (cap.last_hit /\ cap.lc >= img_height)
             /\ IF cap.err # "none" THEN Fail(cap.err) ELSE UNCHANGED <<pc, err>>
    /\ UNCHANGED <<config, recorder, modelVars, alignVars, row, col, i, sent, nmsLocals, written>>

\* Mutant of GaussDrainExit: a spent budget raises instead of warning.
GaussDrainExitRaises ==
    /\ harness = "gauss" /\ pc = "drain"
    /\ ~((~frame_done) /\ flush_cycles < MaxFlushCycles(expected_pixels))
    /\ IF frame_done THEN pc' = "done" /\ UNCHANGED err ELSE Fail("TimeoutError")
    /\ UNCHANGED <<config, recorder, modelVars, alignVars, dut, row, col, i, sent, outputs, gaussLocals, nmsLocals,
                   cycle, accepted, written>>

\* The drain loop's condition is false: send_frame returns (after the
\* flush-timeout warning when frame_done was not seen).
GaussDrainExit ==
    /\ harness = "gauss" /\ pc = "drain"
    /\ ~((~frame_done) /\ flush_cycles < MaxFlushCycles(expected_pixels))
    /\ pc' = "done"
    /\ UNCHANGED <<config, recorder, modelVars, alignVars, dut, err, row, col, i, sent, outputs, gaussLocals, nmsLocals,
                   cycle, accepted, written>>

\* The assertions of test_gaussian_stage_small_frame, in the order of the
\* code: the first that fails, or "none".
AssertOutputCount == "unexpected number of output pixels"
AssertUserCount == "expected exactly one m_tuser pulse"
AssertLastCount == "unexpected number of m_tlast pulses"

GaussAsserts(output_count, user_count, last_count, test_width, test_height) ==
    IF output_count # test_width * test_height THEN AssertOutputCount
    ELSE IF user_count # 1 THEN AssertUserCount
    ELSE IF last_count # test_height THEN AssertLastCount
    ELSE "none"

\* test_gaussian_stage_small_frame after send_frame returned: one more edge,
\* then the assertions.
GaussVerdict ==
    /\ harness = "gauss" /\ pc = "done" /\ EdgeAllowed
    /\ \E rdy \in EnvReadyVals, o \in EnvOutVecs : dut' = DutStep(dut, rdy, o)
    /\ cycle' = NextCycle
    /\ accepted' = AcceptAtEdge(dut, row * img_width + col, accepted)
    /\ LET failed == GaussAsserts(Len(outputs), m_tuser_count, m_tlast_count,
                                  img_width, img_height)
       IN  IF failed = "none" THEN pc' = "passed" /\ UNCHANGED err ELSE Fail(failed)
    /\ UNCHANGED <<config, recorder, modelVars, alignVars, row, col, i, sent, outputs, gaussLocals, nmsLocals, written>>

\* ----------------------------------------------------------- NMS harness
\* drain_then_check_idle: sample_idle(cycles=width + 8), then sample_idle(cycles=8)
DrainExtraCycles == 8
QuietCycles == 8

AssertLast == "m_tlast asserted when m_tvalid=0"
AssertUser == "m_tuser asserted when m_tvalid=0"

\* Mutant of CheckAxiSideband: the m_tuser assertion is missing.
CheckAxiSidebandLastOnly(d) ==
    IF ~Resolved(d.m_tvalid) \/ ~Resolved(d.m_tlast) \/ ~Resolved(d.m_tuser)
    THEN "ValueError"
    ELSE IF d.m_tlast # 0 /\ d.m_tvalid = 0 THEN AssertLast
    ELSE "none"

\* _check_axi_sideband: the exception it raises, or "none".
CheckAxiSideband(d) ==
    IF ~Resolved(d.m_tvalid) \/ ~Resolved(d.m_tlast) \/ ~Resolved(d.m_tuser)
    THEN "ValueError"
    ELSE IF d.m_tlast # 0 /\ d.m_tvalid = 0 THEN AssertLast
    ELSE IF d.m_tuser # 0 /\ d.m_tvalid = 0 THEN AssertUser
    ELSE "none"

\* Mutant of HandshakeHolds: m_tvalid is not looked at.
HandshakeReadyOnly(m_valid, m_ready) == m_ready # 0

\* The condition of _capture_handshake_output.
HandshakeHolds(m_valid, m_ready) == m_valid # 0 /\ m_ready # 0

\* Mutant of CaptureHandshakeOutput: the beat is put at the head of the list.
CaptureHandshakeOutputAtHead(d, out) ==
    IF d.m_tvalid # 0 /\ ~Resolved(d.m_tready) THEN [err |-> "ValueError", out |-> out]
    ELSE IF ~HandshakeHolds(d.m_tvalid, d.m_tready) THEN [err |-> "none", out |-> out]
    ELSE IF ~Resolved(d.m_tdata) THEN [err |-> "ValueError", out |-> out]
    ELSE [err |-> "none",
          out |-> <<[data |-> d.m_tdata, last |-> d.m_tlast, user |-> d.m_tuser]>> \o out]

\* _capture_handshake_output, called after the sideband check passed (so
\* m_tvalid, m_tlast and m_tuser are resolved); `and` reads m_tready only
\* when m_tvalid is nonzero.
CaptureHandshakeOutput(d, out) ==
    IF d.m_tvalid # 0 /\ ~Resolved(d.m_tready) THEN [err |-> "ValueError", out |-> out]
    ELSE IF ~HandshakeHolds(d.m_tvalid, d.m_tready) THEN [err |-> "none", out |-> out]
    ELSE IF ~Resolved(d.m_tdata) THEN [err |-> "ValueError", out |-> out]
    ELSE [err |-> "none",
          out |-> Append(out, [data |-> d.m_tdata, last |-> d.m_tlast,
                               user |-> d.m_tuser])]

\* The monitor calls after an edge, in the order of the code.
NmsMonitor(d, out) ==
    LET chk == CheckAxiSideband(d) IN
    IF chk # "none" THEN [err |-> chk, out |-> out] ELSE CaptureHandshakeOutput(d, out)

\* The test creates the output list and calls send_frame, which drives the
\* first beat.
NmsStart ==
    /\ harness = "nms" /\ pc = "reset_done"
    /\ dut' = NmsDrive(dut, image, dir_image, 0, 0, img_width)
    /\ pc' = "stream"
    /\ row' = 0 /\ col' = 0
    /\ outputs' = <<>>
    /\ written' = written \cup InputPort
    /\ UNCHANGED <<config, recorder, modelVars, alignVars, err, i, sent, gaussLocals, nmsLocals, cycle, accepted>>

\* One pass of the inner `while True` loop of send_frame.
NmsStreamEdge ==
    /\ harness = "nms" /\ pc = "stream" /\ EdgeAllowed
    /\ UNCHANGED <<config, recorder, modelVars, alignVars, i, sent, gaussLocals>>
    /\ IF ~Resolved(dut.s_tready)
       THEN /\ Fail("ValueError")
            /\ UNCHANGED <<dut, row, col, outputs, nmsLocals, cycle, accepted, written>>
       ELSE \E rdy \in EnvReadyVals, o \in EnvOutVecs :
              LET will_accept == BeatWillBeAccepted(dut.s_tready)
                  d1 == DutStep(dut, rdy, o)
                  mon == NmsMonitor(d1, outputs)
                  np == NextPos(row, col, img_width)
              IN  /\ cycle' = NextCycle
                  /\ accepted' = AcceptAtEdge(dut, row * img_width + col, accepted)
                  /\ outputs' = mon.out
                  /\ IF mon.err # "none"
                     THEN /\ Fail(mon.err)
                          /\ dut' = d1
                          /\ UNCHANGED <<row, col, nmsLocals, written>>
                     ELSE IF ~will_accept
                     THEN /\ dut' = d1
                          /\ UNCHANGED <<pc, err, row, col, nmsLocals, written>>
                     ELSE IF np[1] < img_height
                     THEN /\ dut' = NmsDrive(d1, image, dir_image, np[1], np[2],
                                             img_width)
                          /\ row' = np[1] /\ col' = np[2]
                          /\ written' = written \cup InputPort
                          /\ UNCHANGED <<pc, err, nmsLocals>>
                     ELSE /\ dut' = Deassert(d1)
                          /\ row' = np[1] /\ col' = np[2]
                          /\ pc' = "drain"
                          /\ idle_call' = 1
                          /\ idle_left' = img_width + DrainExtraCycles
                          /\ start_len' = Len(mon.out)
                          /\ written' = written \cup {"s_tvalid", "s_tuser", "s_tlast"}
                          /\ UNCHANGED err

\* One pass of the loop of sample_idle; drain_then_check_idle calls it twice.
SampleIdleEdge ==
    /\ harness = "nms" /\ pc = "drain" /\ EdgeAllowed
    /\ \E rdy \in EnvReadyVals, o \in EnvOutVecs :
         LET d1 == DutStep(dut, rdy, o)
             mon == NmsMonitor(d1, outputs)
         IN  /\ cycle' = NextCycle
             /\ accepted' = AcceptAtEdge(dut, row * img_width + col, accepted)
             /\ dut' = d1
             /\ outputs' = mon.out
             /\ IF mon.err # "none"
                THEN Fail(mon.err) /\ UNCHANGED nmsLocals
                ELSE IF idle_left > 1
                THEN /\ idle_left' = idle_left - 1
                     /\ UNCHANGED <<pc, err, idle_call, start_len>>
                ELSE IF idle_call = 1
                THEN /\ idle_call' = 2 /\ idle_left' = QuietCycles
                     /\ start_len' = Len(mon.out)
                     /\ UNCHANGED <<pc, err>>
                ELSE /\ pc' = "done" /\ idle_left' = 0
                     /\ UNCHANGED <<err, idle_call, start_len>>
    /\ UNCHANGED <<config, recorder, modelVars, alignVars, row, col, i, sent, gaussLocals, written>>

\* The assertions of test_nms_stream_integrity_waveform, in the order of the
\* code: the first that fails, or "none".
AssertBeatCount == "unexpected number of output beats"
AssertEolCount == "unexpected number of output EOL pulses"
AssertSofCount == "expected at most one output SOF pulse"
AssertQuiet == "output did not go idle after drain"

SumLast(out) == Cardinality({j \in 1..Len(out) : out[j].last # 0})
SumUser(out) == Cardinality({j \in 1..Len(out) : out[j].user # 0})

NmsAsserts(out, quiet_out, width, height) ==
    IF Len(out) # width * height THEN AssertBeatCount
    ELSE IF SumLast(out) # height THEN AssertEolCount
    ELSE IF ~(SumUser(out) <= 1) THEN AssertSofCount
    ELSE IF quiet_out # 0 THEN AssertQuiet
    ELSE "none"

\* test_nms_stream_integrity_waveform after drain_then_check_idle returned:
\* one more edge, then the assertions; quiet_out is what the second
\* sample_idle call returned.
NmsVerdict ==
    /\ harness = "nms" /\ pc = "done" /\ EdgeAllowed
    /\ \E rdy \in EnvReadyVals, o \in EnvOutVecs : dut' = DutStep(dut, rdy, o)
    /\ cycle' = NextCycle
    /\ accepted' = AcceptAtEdge(dut, row * img_width + col, accepted)
    /\ LET quiet_out == Len(outputs) - start_len
           failed == NmsAsserts(outputs, quiet_out, img_width, img_height)
       IN  IF failed = "none" THEN pc' = "passed" /\ UNCHANGED err ELSE Fail(failed)
    /\ UNCHANGED <<config, recorder, modelVars, alignVars, row, col, i, sent, outputs, gaussLocals, nmsLocals, written>>

\* ---------------------------------------------------- real-image harness
\* _stream_frame_and_capture: the three assignments of one loop pass
\* (s_tvalid was set once before the loop).
RealDrive(d, img, k, w) ==
    [d EXCEPT !.s_tdata = Flat(img, w, k), !.s_tuser = Bit(k = 0),
              !.s_tlast = Bit((k % w) = (w - 1))]

\* The capture block: on _try_int(m_tvalid) == 1 one entry is recorded,
\* resolved or not (outputs[out_count], resolved[out_count], out_count += 1).
RealCapture(d, out) ==
    IF TryInt(d.m_tvalid) = 1
    THEN LET m_data == TryInt(d.m_tdata) IN
         IF m_data # None
         THEN Append(out, [data |-> m_data, resolved |-> TRUE])
         ELSE Append(out, [data |-> 0, resolved |-> FALSE])
    ELSE out

\* Mutant of RealAdvances: the loop repeats a pixel until ready was seen.
RealAdvancesWhenReady(ready) == ready = 1

\* Whether the loop moves to the next pixel after an edge: `for` always does.
RealAdvances(ready) == TRUE

RealStart ==
    /\ harness = "real" /\ pc = "reset_done"
    /\ dut' = RealDrive([dut EXCEPT !.m_tready = 1, !.s_tvalid = 1], image, 0, img_width)
    /\ pc' = "stream"
    /\ i' = 0
    /\ outputs' = <<>>
    /\ written' = written \cup {"m_tready"} \cup InputPort
    /\ UNCHANGED <<config, recorder, modelVars, alignVars, err, row, col, sent, gaussLocals, nmsLocals, cycle, accepted>>

\* One pass of the `for i, pixel in enumerate(in_flat)` loop.
RealStreamEdge ==
    /\ harness = "real" /\ pc = "stream" /\ EdgeAllowed
    /\ \E rdy \in EnvReadyVals, o \in EnvOutVecs :
         LET d1 == DutStep(dut, rdy, o)
             advance == RealAdvances(dut.s_tready)
             k == IF advance THEN i + 1 ELSE i
         IN  /\ cycle' = NextCycle
             /\ accepted' = AcceptAtEdge(dut, i, accepted)
             /\ outputs' = RealCapture(d1, outputs)
             /\ i' = k
             /\ IF k < expected_pixels
                THEN /\ dut' = RealDrive(d1, image, k, img_width)
                     /\ written' = written \cup {"s_tdata", "s_tuser", "s_tlast"}
                     /\ UNCHANGED pc
                ELSE /\ dut' = Deassert(d1)
                     /\ written' = written \cup {"s_tvalid", "s_tuser", "s_tlast"}
                     /\ pc' = "final"
    /\ UNCHANGED <<config, recorder, modelVars, alignVars, err, row, col, sent, gaussLocals, nmsLocals>>

\* The single edge after the loop; the function then returns the capture.
RealFinalEdge ==
    /\ harness = "real" /\ pc = "final" /\ EdgeAllowed
    /\ \E rdy \in EnvReadyVals, o \in EnvOutVecs :
         /\ dut' = DutStep(dut, rdy, o)
         /\ accepted' = AcceptAtEdge(dut, i, accepted)
    /\ cycle' = NextCycle
    /\ pc' = "done"
    /\ UNCHANGED <<config, recorder, modelVars, alignVars, err, row, col, i, sent, outputs, gaussLocals, nmsLocals,
                   written>>

\* ---------------------------------------------------------- Sobel harness
\* image_sobel_test, "Drive Inputs": the branch taken while pixels remain.
SobelDrive(d, img, k, w) ==
    [d EXCEPT !.s_tvalid = 1, !.s_tdata = Flat(img, w, k), !.s_tuser = Bit(k = 0),
              !.s_tlast = Bit((k + 1) % w = 0)]

\* "Check if DUT accepted the input": the ready value is read after the edge.
SobelAccepted(ready_before, ready_after) == IsOne(ready_after)

\* int(dut.m_axis_tdata.value) & 0xFF (the gx and gy samples captured beside
\* it are not modelled).
LowByte(v) == v % 256

SobelStart ==
    /\ harness = "sobel" /\ pc = "reset_done"
    /\ pc' = "stream"
    /\ sent' = 0
    /\ outputs' = <<>>
    /\ UNCHANGED <<config, recorder, modelVars, alignVars, dut, err, row, col, i, gaussLocals, nmsLocals, cycle,
                   accepted, written>>

\* One pass of the unified driver and monitor loop.
SobelEdge ==
    /\ harness = "sobel" /\ pc = "stream" /\ EdgeAllowed
    /\ Len(outputs) < expected_pixels
    /\ UNCHANGED <<config, recorder, modelVars, alignVars, row, col, i, gaussLocals, nmsLocals>>
    /\ \E rdy \in EnvReadyVals, o \in EnvOutVecs :
         LET d0 == IF sent < expected_pixels
                   THEN SobelDrive(dut, image, sent, img_width)
                   ELSE Deassert(dut)
             d1 == DutStep(d0, rdy, o)
             sent1 == IF sent < expected_pixels /\ SobelAccepted(d0.s_tready, d1.s_tready)
                      THEN sent + 1 ELSE sent
             capture == IsOne(d1.m_tvalid) /\ IsOne(d1.m_tready)
         IN  /\ cycle' = NextCycle
             /\ accepted' = AcceptAtEdge(d0, sent, accepted)
             /\ dut' = d1
             /\ written' = written \cup (IF sent < expected_pixels THEN InputPort
                                         ELSE {"s_tvalid", "s_tuser", "s_tlast"})
             /\ sent' = sent1
             /\ IF capture /\ ~Resolved(d1.m_tdata)
                THEN Fail("ValueError") /\ UNCHANGED outputs
                ELSE /\ outputs' = IF capture THEN Append(outputs, LowByte(d1.m_tdata))
                                   ELSE outputs
                     /\ UNCHANGED <<pc, err>>

\* Mutant of SobelExit: the loop ends once every pixel was sent.
SobelExitWhenSent ==
    /\ harness = "sobel" /\ pc = "stream"
    /\ ~(sent < expected_pixels)
    /\ dut' = [dut EXCEPT !.s_tvalid = 0]
    /\ written' = written \cup {"s_tvalid"}
    /\ pc' = "done"
    /\ UNCHANGED <<config, recorder, modelVars, alignVars, err, row, col, i, sent, outputs, gaussLocals, nmsLocals,
                   cycle, accepted>>

\* The loop condition is false: every expected output was captured.
SobelExit ==
    /\ harness = "sobel" /\ pc = "stream"
    /\ ~(Len(outputs) < expected_pixels)
    /\ dut' = [dut EXCEPT !.s_tvalid = 0]
    /\ written' = written \cup {"s_tvalid"}
    /\ pc' = "done"
    /\ UNCHANGED <<config, recorder, modelVars, alignVars, err, row, col, i, sent, outputs, gaussLocals, nmsLocals,
                   cycle, accepted>>

\* ------------------------------------------------------- specification
Next ==
    \/ ResetDut
    \/ GaussStart \/ GaussStreamEdge \/ GaussDrainEdge \/ GaussDrainExit
    \/ NmsStart \/ NmsStreamEdge \/ SampleIdleEdge
    \/ RealStart \/ RealStreamEdge \/ RealFinalEdge
    \/ SobelStart \/ SobelEdge \/ SobelExit

Spec == Init /\ [][Next]_vars

\* ------------------------------------------- whole-run specification
\* The same harnesses run to their end: the pipeline is bounded by the beats
\* it emits, not by the edges the harness waits for, so that the drain
\* budget can be spent, the NMS drain can finish and the tests reach their
\* assertions.
RunInit == Boot({"beats"}, RunMaxW, RunMaxH)

RunNext == Next \/ GaussVerdict \/ NmsVerdict

RunSpec == RunInit /\ [][RunNext]_vars

\* Whole runs under fairness: the simulator always delivers the next clock
\* edge and the test coroutine always runs on when it can.  Beside the
\* pipelines of RunSpec there is the stalled one, which after reset never
\* raises s_tready and never emits a beat.
RunLiveInit == Boot({"beats", "stalled"}, RunMaxW, RunMaxH)

RunLive == RunLiveInit /\ [][RunNext]_vars /\ WF_vars(RunNext)

\* ------------------------------------------------------ alignment search
Min(a, b) == IF a < b THEN a ELSE b

\* An average error: the exact fraction num/den (the rounding of the float
\* arithmetic is not modelled); and float("inf").
Inf == [num |-> 1, den |-> 0]

Frac(n, d) == [num |-> n, den |-> d]

\* Mutant of ErrLess: a later offset with the same error replaces the best.
ErrLessOrEqual(a, b) == a.num * b.den <= b.num * a.den

\* err < best_err
ErrLess(a, b) == a.num * b.den < b.num * a.den

\* best_err == 0.0
ErrIsZero(e) == e.den # 0 /\ e.num = 0

\* The captured stream as _stream_frame_and_capture returns it: the samples
\* and the flags that say which of them were resolved.
ObservedOf(out) == [j \in 1..Len(out) |-> out[j].data]
ResolvedOf(out) == [j \in 1..Len(out) |-> out[j].resolved]

ChunkCap == 2048

\* chunk_len
ChunkLen(size, len) == Min(ChunkCap, Min(len, size))

\* Mutant of Starts: the last window begins one sample later.
StartsPastEnd(size, chunk_len) ==
    IF size > chunk_len
    THEN <<0, (size - chunk_len) \div 3, (2 * (size - chunk_len)) \div 3,
           (size - chunk_len) + 1>>
    ELSE <<0>>

\* starts: the first samples (0-based) of the windows.
Starts(size, chunk_len) ==
    IF size > chunk_len
    THEN <<0, (size - chunk_len) \div 3, (2 * (size - chunk_len)) \div 3,
           size - chunk_len>>
    ELSE <<0>>

\* Mutant of ClampedMaxOffset: the caller's bound is used as it is.
UnclampedMaxOffset(max, expected_size, starts, chunk_len) == max

\* max_offset after line 113.
ClampedMaxOffset(max, expected_size, starts, chunk_len) ==
    Min(max, expected_size - (starts[Len(starts)] + chunk_len))

\* Mutant of AbsDiff: the sign of the difference is kept.
SignedDiff(a, b) == a - b

\* np.abs(obs - exp), one sample
AbsDiff(a, b) == IF a >= b THEN a - b ELSE b - a

\* np.any(res) for the window at start: the number of resolved samples in it.
WindowCount(res, start, chunk_len) ==
    Cardinality({j \in 1..chunk_len : res[start + j]})

\* The sum of np.abs(obs[res] - exp[res]) over the samples lo..hi of the
\* window at start, the reference taken at offset o (summed pairwise, as
\* np.mean adds).
\* Mutant of RangeSum: the resolved mask is not applied.
RECURSIVE RangeSumUnmasked(_, _, _, _, _, _, _)
RangeSumUnmasked(obs, res, exp, o, start, lo, hi) ==
    IF lo > hi THEN 0
    ELSE AbsDiff(obs[start + lo], exp[o + start + lo])
         + RangeSumUnmasked(obs, res, exp, o, start, lo + 1, hi)

RECURSIVE RangeSum(_, _, _, _, _, _, _)
RangeSum(obs, res, exp, o, start, lo, hi) ==
    IF lo > hi THEN 0
    ELSE IF lo = hi
    THEN (IF res[start + lo] THEN AbsDiff(obs[start + lo], exp[o + start + lo]) ELSE 0)
    ELSE LET mid == (lo + hi) \div 2
         IN  RangeSum(obs, res, exp, o, start, lo, mid)
             + RangeSum(obs, res, exp, o, start, mid + 1, hi)

\* The sum of np.abs(obs[res] - exp[res]) for the first j samples of the
\* window at start, the reference taken at offset o.
WindowSum(obs, res, exp, o, start, j) == RangeSum(obs, res, exp, o, start, 1, j)

\* The windows that enter errs: those with a resolved sample.
UsedWindows(res, starts, chunk_len) ==
    {q \in 1..Len(starts) : WindowCount(res, starts[q], chunk_len) > 0}

\* The product of the resolved-sample counts of the used windows among the
\* first q: the common denominator of their mean errors.
RECURSIVE CountProduct(_, _, _, _)
CountProduct(res, starts, chunk_len, q) ==
    IF q = 0 THEN 1
    ELSE LET n == WindowCount(res, starts[q], chunk_len)
         IN  (IF n = 0 THEN 1 ELSE n) * CountProduct(res, starts, chunk_len, q - 1)

\* The sum of the mean errors of the used windows among the first q, as a
\* multiple of 1/p.
RECURSIVE MeanSum(_, _, _, _, _, _, _, _)
MeanSum(obs, res, exp, o, starts, chunk_len, p, q) ==
    IF q = 0 THEN 0
    ELSE LET n == WindowCount(res, starts[q], chunk_len)
         IN  (IF n = 0 THEN 0
              ELSE WindowSum(obs, res, exp, o, starts[q], chunk_len) * (p \div n))
             + MeanSum(obs, res, exp, o, starts, chunk_len, p, q - 1)

\* err for one offset: np.mean(errs) (errs is not empty).
OffsetErr(obs, res, exp, o, starts, chunk_len) ==
    LET p == CountProduct(res, starts, chunk_len, Len(starts))
    IN  Frac(MeanSum(obs, res, exp, o, starts, chunk_len, p, Len(starts)),
             Cardinality(UsedWindows(res, starts, chunk_len)) * p)

\* The `for offset in range(max_offset + 1)` loop from offset o on, with the
\* best offset and error so far.
RECURSIVE SearchOffsets(_, _, _, _, _, _, _, _, _)
SearchOffsets(obs, res, exp, starts, chunk_len, max, o, best_offset, best_err) ==
    IF o > max THEN [offset |-> best_offset, err |-> best_err]
    ELSE IF UsedWindows(res, starts, chunk_len) = {}
    THEN SearchOffsets(obs, res, exp, starts, chunk_len, max, o + 1, best_offset,
                       best_err)
    ELSE LET e == OffsetErr(obs, res, exp, o, starts, chunk_len) IN
         IF ~ErrLess(e, best_err)
         THEN SearchOffsets(obs, res, exp, starts, chunk_len, max, o + 1, best_offset,
                            best_err)
         ELSE IF ErrIsZero(e) THEN [offset |-> o, err |-> e]
         ELSE SearchOffsets(obs, res, exp, starts, chunk_len, max, o + 1, o, e)

\* _best_alignment_offset: what it raises, or "none" and what it returns.
BestAlignmentOffset(observed, observed_resolved, expected, max, len) ==
    IF Len(observed) = 0 \/ Len(expected) = 0
    THEN [raised |-> "ValueError", offset |-> 0, err |-> Inf]
    ELSE LET chunk_len == ChunkLen(Len(observed), len) IN
         IF chunk_len <= 0
         THEN [raised |-> "ValueError", offset |-> 0, err |-> Inf]
         ELSE LET starts == Starts(Len(observed), chunk_len)
                  clamped == ClampedMaxOffset(max, Len(expected), starts, chunk_len)
                  best == SearchOffsets(observed, observed_resolved, expected, starts,
                                        chunk_len, clamped, 0, 0, Inf)
              IN  [raised |-> "none", offset |-> best.offset, err |-> best.err]

\* The streams the alignment specification draws from: samples 0 and 1.
SampleValues == {0, 1}

\* All sequences over s of length 1..n.
SeqsUpTo(s, n) == UNION {[1..k -> s] : k \in 1..n}

\* What a capture may hold for one beat: a resolved sample, or the 0 the
\* array keeps for an unresolved one.
CaptureEntries ==
    {[data |-> v, resolved |-> TRUE] : v \in SampleValues}
    \cup {[data |-> 0, resolved |-> FALSE]}

\* A call of _best_alignment_offset on a captured stream, a reference stream
\* and its two keyword arguments.
AlignInit ==
    /\ harness = "real"
    /\ img_width = 1 /\ img_height = 1
    /\ image = RampImage(1, 1) /\ dir_image = DirPattern(1, 1)
    /\ horizon = "beats"
    /\ dut = Deassert(ResetSignals(Undriven))
    /\ pc = "align"
    /\ err = "none"
    /\ row = 0 /\ col = 0 /\ i = 0 /\ sent = 0
    /\ outputs \in SeqsUpTo(CaptureEntries, AlignMaxLen)
    /\ m_tlast_count = 0 /\ m_tuser_count = 0 /\ flush_cycles = 0 /\ frame_done = FALSE
    /\ idle_left = 0 /\ idle_call = 0 /\ start_len = 0
    /\ cycle = 0
    /\ accepted = <<>>
    /\ written = {}
    /\ expected_flat \in SeqsUpTo(SampleValues, AlignMaxLen)
    /\ max_offset \in 0..AlignMaxLen
    /\ sample_len \in 0..AlignMaxLen
    /\ offset = 0 /\ align_err = None
    /\ ModelIdle

\* The call returns or raises.
Align ==
    /\ pc = "align"
    /\ LET found == BestAlignmentOffset(ObservedOf(outputs), ResolvedOf(outputs),
                                         expected_flat, max_offset, sample_len)
       IN  IF found.raised # "none"
           THEN Fail(found.raised) /\ UNCHANGED <<offset, align_err>>
           ELSE /\ pc' = "aligned"
                /\ offset' = found.offset
                /\ align_err' = found.err
                /\ UNCHANGED err
    /\ UNCHANGED <<config, recorder, modelVars, dut, row, col, i, sent, outputs, gaussLocals, nmsLocals,
                   cycle, accepted, written, expected_flat, max_offset, sample_len>>

AlignSpec == AlignInit /\ [][Align]_vars

\* ------------------------------------------------------------ golden model
\* Mutant of GAUSSIAN_KERNEL: the corner weights are moved to the centre.
SharperKernel ==
    <<<<0, 4, 6, 4, 0>>, <<4, 16, 24, 16, 4>>, <<6, 24, 40, 24, 6>>,
      <<4, 16, 24, 16, 4>>, <<0, 4, 6, 4, 0>>>>

GAUSSIAN_KERNEL ==
    <<<<1, 4, 6, 4, 1>>, <<4, 16, 24, 16, 4>>, <<6, 24, 36, 24, 6>>,
      <<4, 16, 24, 16, 4>>, <<1, 4, 6, 4, 1>>>>

\* np.clip(v, lo, hi)
Clip(v, lo, hi) == IF v < lo THEN lo ELSE IF v > hi THEN hi ELSE v

\* Mutant of Nearest: mode='reflect', the frame mirrored at its edges.
Reflect(k, n) ==
    Clip(IF k < 0 THEN (0 - k) - 1 ELSE IF k > n - 1 THEN (2 * n - 1) - k ELSE k, 0, n - 1)

\* mode='nearest': an index outside 0..n-1 reads the nearest sample inside.
Nearest(k, n) == Clip(k, 0, n - 1)

\* ndimage.convolve at (r, c): the sum over the first k taps of the 5x5
\* kernel.  A convolution pairs the tap (a, b) with the sample at the
\* mirrored displacement from the centre.
RECURSIVE ConvolveAt(_, _, _, _, _, _)
ConvolveAt(img, w, h, r, c, k) ==
    IF k = 0 THEN 0
    ELSE LET a == (k - 1) \div 5
             b == (k - 1) % 5
         IN  GAUSSIAN_KERNEL[a + 1][b + 1]
                 * img[Nearest(r - (a - 2), h)][Nearest(c - (b - 2), w)]
             + ConvolveAt(img, w, h, r, c, k - 1)

\* Mutant of Normalize: the rounding flag is ignored, the sum is truncated.
NormalizeTruncating(total, rounding) == Clip(total \div 256, 0, 255)

\* (total + 128) >> 8 or total >> 8, then np.clip(., 0, 255); total is not
\* negative.
Normalize(total, rounding) ==
    Clip(IF rounding THEN (total + 128) \div 256 ELSE total \div 256, 0, 255)

\* gaussian_filter_ref(image, use_rounding) for a w x h image
gaussian_filter_ref(img, w, h, rounding) ==
    [r \in 0..(h - 1) |->
        [c \in 0..(w - 1) |-> Normalize(ConvolveAt(img, w, h, r, c, 25), rounding)]]

\* Mutant of WindowTotal: the taps are added without their coefficients.
RECURSIVE WindowTotalUnweighted(_, _)
WindowTotalUnweighted(window, k) ==
    IF k = 0 THEN 0
    ELSE window[(k - 1) \div 5][(k - 1) % 5] + WindowTotalUnweighted(window, k - 1)

\* np.sum(window.astype(np.int32) * GAUSSIAN_KERNEL) over the first k taps
RECURSIVE WindowTotal(_, _)
WindowTotal(window, k) ==
    IF k = 0 THEN 0
    ELSE LET a == (k - 1) \div 5
             b == (k - 1) % 5
         IN  window[a][b] * GAUSSIAN_KERNEL[a + 1][b + 1] + WindowTotal(window, k - 1)

\* gaussian_single_window(window, use_rounding) for a 5x5 window
gaussian_single_window(window, rounding) == Normalize(WindowTotal(window, 25), rounding)

\* Mutant of pe_ref: the product is cut to its low byte.
pe_ref_low_byte(pixel, coeff) == (pixel * coeff) % 256

\* pe_ref(pixel, coeff)
pe_ref(pixel, coeff) == pixel * coeff

\* img.reshape(-1), as a sequence
Flatten(img, w, h) == [k \in 1..(w * h) |-> Flat(img, w, k - 1)]

\* ------------------------------------------- real-image test: the verdict
AssertNoOutput == "No output samples observed"
AssertOutOfRange == "Alignment offset places expected window out of range"
AssertNoComparable == "No comparable samples"
AssertMismatch == "RTL vs expected mismatch"

\* The border the comparison leaves out, the largest difference it accepts,
\* and the sample_len the test passes to the search.
Margin == 4
MaxDiffAllowed == 1
AlignSampleLen == 8192

\* max_offset=(2 * img_width + 256)
AlignMaxOffset(w) == 2 * w + 256

\* interior_cols & interior_rows for the reference index idx
Interior(idx, w, h) ==
    LET cols == idx % w
        rows == idx \div w
    IN  cols >= Margin /\ cols < (w - Margin) /\ rows >= Margin /\ rows < (h - Margin)

\* Mutant of ComparedSamples: no sample is masked out.
ComparedSamplesUnmasked(res, off, compare_len, w, h) == 1..compare_len

\* mask: the captured samples (1-based) that are compared
ComparedSamples(res, off, compare_len, w, h) ==
    {j \in 1..compare_len : res[j] /\ Interior((j - 1) + off, w, h)}

\* Mutant of MaxDiff: the smallest difference over the mask.
MinDiff(obs, exp, off, mask) ==
    CHOOSE d \in {AbsDiff(obs[j], exp[off + j]) : j \in mask} :
        \A j \in mask : d <= AbsDiff(obs[j], exp[off + j])

\* max_diff: diffs.max(initial=0)
MaxDiff(obs, exp, off, mask) ==
    CHOOSE d \in {0} \cup {AbsDiff(obs[j], exp[off + j]) : j \in mask} :
        \A j \in mask : AbsDiff(obs[j], exp[off + j]) <= d

\* Mutant of MaskIsEmpty: an empty mask is let through.
MaskNeverEmpty(mask) == FALSE

\* not bool(np.any(mask))
MaskIsEmpty(mask) == mask = {}

\* Lines 164-236: the exception the test ends with, or "none", and the
\* alignment it found.
RealAsserts(out, exp, w, h) ==
    IF Len(out) = 0
    THEN [failed |-> AssertNoOutput, offset |-> 0, err |-> None]
    ELSE LET obs == ObservedOf(out)
             res == ResolvedOf(out)
             found == BestAlignmentOffset(obs, res, exp, AlignMaxOffset(w),
                                          AlignSampleLen)
             compare_len == Min(Len(obs), Len(exp) - found.offset)
             mask == ComparedSamples(res, found.offset, compare_len, w, h)
         IN  IF found.raised # "none"
             THEN [failed |-> found.raised, offset |-> 0, err |-> None]
             ELSE IF compare_len <= 0
             THEN [failed |-> AssertOutOfRange, offset |-> found.offset,
                   err |-> found.err]
             ELSE IF MaskIsEmpty(mask)
             THEN [failed |-> AssertNoComparable, offset |-> found.offset,
                   err |-> found.err]
             ELSE IF ~(MaxDiff(obs, exp, found.offset, mask) <= MaxDiffAllowed)
             THEN [failed |-> AssertMismatch, offset |-> found.offset,
                   err |-> found.err]
             ELSE [failed |-> "none", offset |-> found.offset, err |-> found.err]

\* test_gaussian_stage_real_image_1080p after _stream_frame_and_capture
\* returned.
RealVerdict ==
    /\ harness = "real" /\ pc = "done"
    /\ LET v == RealAsserts(outputs, expected_flat, img_width, img_height)
       IN  /\ offset' = v.offset
           /\ align_err' = v.err
           /\ IF v.failed = "none" THEN pc' = "passed" /\ UNCHANGED err
              ELSE Fail(v.failed)
    /\ max_offset' = AlignMaxOffset(img_width)
    /\ sample_len' = AlignSampleLen
    /\ UNCHANGED <<config, recorder, modelVars, dut, row, col, i, sent, outputs, gaussLocals, nmsLocals,
                   cycle, accepted, written, expected_flat>>

\* The frames and captures of the verdict specification.  The frame is the
\* smallest square one with more than one compared sample (2*Margin + 2 on a
\* side: a 2x2 interior).
MaxSkip == 2
MaxTrunc == 2
MaxNoise == 2
MaxDrift == 2
MaxShort == 2

VerdictSide == 2 * Margin + 2

VerdictImage(w, h) ==
    [r \in 0..(h - 1) |-> [c \in 0..(w - 1) |-> 20 + ((13 * r * r + 29 * c + 7 * r * c) % 200)]]

\* What the monitor captured from a pipeline that left out the first skip
\* reference samples, stopped trunc samples before the end of the frame,
\* was off by noise on the reference sample at index centre, presented that
\* sample unresolved or not, and was off by drift on every sample of the
\* frame's border.
Capture(exp, w, h, skip, trunc, noise, centre, unresolved, drift) ==
    [j \in 1..(Len(exp) - skip - trunc) |->
        IF (skip + j) - 1 = centre
        THEN (IF unresolved THEN [data |-> 0, resolved |-> FALSE]
              ELSE [data |-> exp[skip + j] + noise, resolved |-> TRUE])
        ELSE IF Interior((skip + j) - 1, w, h)
        THEN [data |-> exp[skip + j], resolved |-> TRUE]
        ELSE [data |-> exp[skip + j] + drift, resolved |-> TRUE]]

\* What the monitor captured from a pipeline that presented n valid beats,
\* none of them with resolved data.
Blind(n) == [j \in 1..n |-> [data |-> 0, resolved |-> FALSE]]

\* What the monitor captured from a pipeline that stopped after the first n
\* samples of the frame.
FirstSamples(exp, n) == [j \in 1..n |-> [data |-> exp[j], resolved |-> TRUE]]

VerdictCaptures(exp, w, h, centre) ==
    {<<>>}
    \cup {Blind(Len(exp) - trunc) : trunc \in 0..MaxTrunc}
    \cup {FirstSamples(exp, n) : n \in 1..MaxShort}
    \cup {Capture(exp, w, h, skip, trunc, noise, centre, unresolved, drift) :
             skip \in 0..MaxSkip, trunc \in 0..MaxTrunc,
             noise \in (0 - MaxNoise)..MaxNoise, unresolved \in BOOLEAN,
             drift \in 0..MaxDrift}

\* The real-image test at the return of _stream_frame_and_capture: every
\* pixel was driven, the stimulus is deasserted, the capture is at hand.
VerdictInit ==
    /\ harness = "real"
    /\ img_width = VerdictSide /\ img_height = VerdictSide
    /\ image = VerdictImage(img_width, img_height)
    /\ dir_image = DirPattern(img_width, img_height)
    /\ horizon = "beats"
    /\ dut = DutStep(Deassert(ResetSignals(Undriven)), 1, IdleVec)
    /\ pc = "done"
    /\ err = "none"
    /\ row = 0 /\ col = 0 /\ i = img_width * img_height /\ sent = 0
    /\ expected_flat =
           Flatten(gaussian_filter_ref(image, img_width, img_height, TRUE),
                   img_width, img_height)
    /\ outputs \in VerdictCaptures(expected_flat, img_width, img_height,
                                   Margin * img_width + Margin)
    /\ m_tlast_count = 0 /\ m_tuser_count = 0 /\ flush_cycles = 0 /\ frame_done = FALSE
    /\ idle_left = 0 /\ idle_call = 0 /\ start_len = 0
    /\ cycle = 0
    /\ accepted = <<>>
    /\ written = InputPort \cup {"m_tready"}
    /\ max_offset = 0 /\ sample_len = 0
    /\ offset = 0 /\ align_err = None
    /\ ModelIdle

VerdictSpec == VerdictInit /\ [][RealVerdict]_vars

\* ------------------------------------------------- row-buffer harness
\* test_row_buffer_verify_content: the literals of the test.
NumLines == 10
LineWidth == 32
FlushCycles == 300
RowLatency == 4
RowOutputs == 0..4

RowSeeds == {1, 5}

\* lines: np.random.randint(0, 256, width), one of the draws considered.
RowLines(seed) ==
    [l \in 0..(NumLines - 1) |->
        [c \in 0..(LineWidth - 1) |-> (seed * (l * LineWidth + c) + l + 1) % 256]]

\* The row buffer before the test drives it; lag is the latency it has in
\* excess of RowLatency.
RowUndriven(lag) ==
    [rst_n |-> X, enable |-> X, pixel_in |-> X, rows |-> [k \in RowOutputs |-> X],
     lag |-> lag]

\* The pixel the row buffer takes at an edge, added to those it took since
\* reset.
RowTake(d, hist) == IF d.enable = 1 THEN Append(hist, d.pixel_in) ELSE hist

\* row_0..row_4 of a row buffer that took hist: row_4 is the input
\* RowLatency + lag edges ago, every row above it one line earlier; 0 before
\* the first pixel.
RowIdeal(hist, lag, w) ==
    [k \in RowOutputs |->
        LET idx == Len(hist) - (RowLatency + lag + (4 - k) * w)
        IN  IF idx >= 1 THEN hist[idx] ELSE 0]

\* The values the row outputs may show after an edge: those of the delay
\* line, or unresolved ones.
RowOutVecs(hist, lag, w) == {RowIdeal(hist, lag, w), [k \in RowOutputs |-> X]}

\* reset_dut of test_row_buffer_5.py: called at the start of the test and
\* again after the first pass over the lines.
RowResetDut ==
    /\ harness = "rowbuf" /\ pc \in {"idle", "drive_done"}
    /\ dut' = [dut EXCEPT !.rst_n = 1, !.enable = 0, !.pixel_in = 0,
                          !.rows = [k \in RowOutputs |-> 0]]
    /\ accepted' = <<>>
    /\ pc' = IF pc = "idle" THEN "reset_done" ELSE "reset_again"
    /\ written' = written \cup {"rst_n", "enable", "pixel_in"}
    /\ UNCHANGED <<config, recorder, modelVars, alignVars, err, row, col, i, sent, outputs, gaussLocals,
                   nmsLocals, cycle>>

\* The position after (l_idx, c_idx) in the nested loops over the lines.
RowNextPos(l, c, w) == IF c + 1 < w THEN <<l, c + 1>> ELSE <<l + 1, 0>>

\* dut.enable.value = 1 and the first assignment of the first pass.
RowDriveStart ==
    /\ harness = "rowbuf" /\ pc = "reset_done"
    /\ dut' = [dut EXCEPT !.enable = 1, !.pixel_in = image[0][0]]
    /\ row' = 0 /\ col' = 0
    /\ pc' = "drive"
    /\ written' = written \cup {"enable", "pixel_in"}
    /\ UNCHANGED <<config, recorder, modelVars, alignVars, err, i, sent, outputs, gaussLocals, nmsLocals,
                   cycle, accepted>>

\* One pass of the first `for l_idx ... for c_idx` loops: the pixel is
\* driven, the edge awaited, nothing is captured.
RowDriveEdge ==
    /\ harness = "rowbuf" /\ pc = "drive"
    /\ LET hist == RowTake(dut, accepted)
           nxt == RowNextPos(row, col, img_width)
       IN  /\ accepted' = hist
           /\ row' = nxt[1] /\ col' = nxt[2]
           /\ \E o \in RowOutVecs(hist, dut.lag, img_width) :
                IF nxt[1] < img_height
                THEN /\ dut' = [dut EXCEPT !.rows = o, !.pixel_in = image[nxt[1]][nxt[2]]]
                     /\ UNCHANGED pc
                ELSE /\ dut' = [dut EXCEPT !.rows = o]
                     /\ pc' = "drive_done"
    /\ UNCHANGED <<config, recorder, modelVars, alignVars, err, i, sent, outputs, gaussLocals, nmsLocals,
                   cycle, written>>

\* dut.enable.value = 1, received_rows = [[], ..., []] and the first
\* assignment of the second pass.
RowStreamStart ==
    /\ harness = "rowbuf" /\ pc = "reset_again"
    /\ dut' = [dut EXCEPT !.enable = 1, !.pixel_in = image[0][0]]
    /\ row' = 0 /\ col' = 0
    /\ outputs' = <<>>
    /\ pc' = "stream"
    /\ UNCHANGED <<config, recorder, modelVars, alignVars, err, i, sent, gaussLocals, nmsLocals, cycle,
                   accepted, written>>

\* received_rows[k].append(int(dut.row_k.value)) for the five rows: int()
\* raises on an unresolved value.
RowCaptureRaises(o) == \E k \in RowOutputs : ~Resolved(o[k])

\* One pass of the second `for l_idx ... for c_idx` loops, with the capture.
RowStreamEdge ==
    /\ harness = "rowbuf" /\ pc = "stream"
    /\ LET hist == RowTake(dut, accepted)
           nxt == RowNextPos(row, col, img_width)
       IN  /\ accepted' = hist
           /\ \E o \in RowOutVecs(hist, dut.lag, img_width) :
                IF RowCaptureRaises(o)
                THEN /\ dut' = [dut EXCEPT !.rows = o]
                     /\ Fail("ValueError")
                     /\ UNCHANGED <<row, col, i, outputs>>
                ELSE /\ outputs' = Append(outputs, o)
                     /\ row' = nxt[1] /\ col' = nxt[2]
                     /\ UNCHANGED err
                     /\ IF nxt[1] < img_height
                        THEN /\ dut' = [dut EXCEPT !.rows = o,
                                                   !.pixel_in = image[nxt[1]][nxt[2]]]
                             /\ UNCHANGED <<pc, i>>
                        ELSE /\ dut' = [dut EXCEPT !.rows = o, !.pixel_in = 0]
                             /\ i' = 0
                             /\ pc' = "flush"
    /\ UNCHANGED <<config, recorder, modelVars, alignVars, sent, gaussLocals, nmsLocals, cycle, written>>

\* One pass of the `for _ in range(300)` loop.
RowFlushEdge ==
    /\ harness = "rowbuf" /\ pc = "flush"
    /\ LET hist == RowTake(dut, accepted)
       IN  /\ accepted' = hist
           /\ \E o \in RowOutVecs(hist, dut.lag, img_width) :
                /\ dut' = [dut EXCEPT !.rows = o]
                /\ IF RowCaptureRaises(o)
                   THEN Fail("ValueError") /\ UNCHANGED <<i, outputs>>
                   ELSE /\ outputs' = Append(outputs, o)
                        /\ i' = i + 1
                        /\ UNCHANGED err
                        /\ pc' = IF i + 1 < FlushCycles THEN "flush" ELSE "compare"
    /\ UNCHANGED <<config, recorder, modelVars, alignVars, row, col, sent, gaussLocals, nmsLocals, cycle,
                   written>>

\* check_stream(name, actual, expected_lines, delay_cycles) for the row k of
\* the capture: the samples from delay_cycles on equal the lines in order.
check_stream(received, k, expected_lines, w, h, delay_cycles) ==
    /\ Len(received) - delay_cycles >= w * h
    /\ \A n \in 0..(w * h - 1) :
           received[delay_cycles + n + 1][k] = Flat(expected_lines, w, n)

AssertRow == "check_stream returned False"

\* The five `assert check_stream(...)` of the test.
RowVerdict ==
    /\ harness = "rowbuf" /\ pc = "compare"
    /\ IF \A k \in RowOutputs :
              check_stream(outputs, k, image, img_width, img_height,
                           RowLatency + (4 - k) * img_width)
       THEN pc' = "passed" /\ UNCHANGED err
       ELSE Fail(AssertRow)
    /\ UNCHANGED <<config, recorder, modelVars, alignVars, dut, row, col, i, sent, outputs, gaussLocals,
                   nmsLocals, cycle, accepted, written>>

\* The row-buffer test before its first reset, for a row buffer of the
\* expected latency or one edge slower.
RowInit ==
    /\ harness = "rowbuf"
    /\ img_width = LineWidth /\ img_height = NumLines
    /\ \E seed \in RowSeeds : image = RowLines(seed)
    /\ dir_image = DirPattern(1, 1)
    /\ horizon = "beats"
    /\ \E lag \in {0, 1} : dut = RowUndriven(lag)
    /\ pc = "idle"
    /\ err = "none"
    /\ row = 0 /\ col = 0 /\ i = 0 /\ sent = 0
    /\ outputs = <<>>
    /\ m_tlast_count = 0 /\ m_tuser_count = 0 /\ flush_cycles = 0 /\ frame_done = FALSE
    /\ idle_left = 0 /\ idle_call = 0 /\ start_len = 0
    /\ cycle = 0
    /\ accepted = <<>>
    /\ written = {}
    /\ expected_flat = <<>>
    /\ max_offset = 0 /\ sample_len = 0
    /\ offset = 0 /\ align_err = None
    /\ ModelIdle

RowNext ==
    \/ RowResetDut \/ RowDriveStart \/ RowDriveEdge \/ RowStreamStart
    \/ RowStreamEdge \/ RowFlushEdge \/ RowVerdict

RowSpec == RowInit /\ [][RowNext]_vars

\* ------------------------------------------- calls of the golden model
GoldMaxW == 2
GoldMaxH == 2

\* uint8 samples
Pixels == 0..255

\* The 5x5 windows considered: one tap at v on a background of bg.
Impulse(a, b, v, bg) ==
    [r \in 0..4 |-> [c \in 0..4 |-> IF r = a /\ c = b THEN v ELSE bg]]

GoldWindows ==
    {Impulse(a, b, v, bg) : a \in 0..4, b \in 0..4, v \in Pixels, bg \in {0, 255}}

\* The frames considered: every w x h frame over three sample values.
GoldFrames(w, h) == [0..(h - 1) -> [0..(w - 1) -> {0, 100, 255}]]

\* A call of gaussian_single_window or gaussian_filter_ref with its
\* arguments.
GoldInit ==
    /\ harness = "model"
    /\ \/ /\ img_width = 5 /\ img_height = 5
          /\ image \in GoldWindows
          /\ pc = "window"
       \/ /\ img_width = 5 /\ img_height = 5
          /\ image \in {Impulse(a, b, 200, bg) : a \in 0..4, b \in 0..4, bg \in {0, 255}}
          /\ pc = "frame"
       \/ /\ img_width \in 1..GoldMaxW /\ img_height \in 1..GoldMaxH
          /\ image \in GoldFrames(img_width, img_height)
          /\ pc \in {"window", "frame"}
    /\ dir_image = DirPattern(1, 1)
    /\ horizon = "beats"
    /\ dut = Undriven
    /\ err = "none"
    /\ row = 0 /\ col = 0 /\ i = 0 /\ sent = 0
    /\ outputs = <<>>
    /\ m_tlast_count = 0 /\ m_tuser_count = 0 /\ flush_cycles = 0 /\ frame_done = FALSE
    /\ idle_left = 0 /\ idle_call = 0 /\ start_len = 0
    /\ cycle = 0
    /\ accepted = <<>>
    /\ written = {}
    /\ expected_flat = <<>>
    /\ max_offset = 0 /\ sample_len = 0
    /\ offset = 0 /\ align_err = None
    /\ use_rounding \in BOOLEAN
    /\ result = None
    /\ pixels = <<>> /\ coeffs = <<>> /\ running_sum = 0
    /\ recorder = NoRecorder

AssertWindowShape == "Window must be 5x5"

\* gaussian_single_window(window, use_rounding) returns or raises.
SingleWindowCall ==
    /\ pc = "window"
    /\ IF img_width = 5 /\ img_height = 5
       THEN /\ result' = gaussian_single_window(image, use_rounding)
            /\ pc' = "window_out"
            /\ UNCHANGED err
       ELSE Fail(AssertWindowShape) /\ UNCHANGED result
    /\ UNCHANGED <<config, recorder, alignVars, dut, row, col, i, sent, outputs, gaussLocals,
                   nmsLocals, cycle, accepted, written, use_rounding, pixels, coeffs,
                   running_sum>>

\* gaussian_filter_ref(image, use_rounding) returns.
FilterRefCall ==
    /\ pc = "frame"
    /\ result' = gaussian_filter_ref(image, img_width, img_height, use_rounding)
    /\ pc' = "frame_out"
    /\ UNCHANGED <<config, recorder, alignVars, dut, err, row, col, i, sent, outputs, gaussLocals,
                   nmsLocals, cycle, accepted, written, use_rounding, pixels, coeffs,
                   running_sum>>

GoldNext == SingleWindowCall \/ FilterRefCall

GoldSpec == GoldInit /\ [][GoldNext]_vars

\* ------------------------------------------------------- PE chain test
ChainMaxLen == 3

\* The operands of test_pe_chain_simulation.
ChainPixels == <<10, 20, 30, 40, 50>>
ChainCoeffs == <<1, 2, 3, 4, 5>>

\* 8-bit operands at the ends of their range.
ChainValues == {0, 255}

\* The multiply-accumulate step of a processing element.
mac_step(pixel, coeff, acc_in) == acc_in + pe_ref(pixel, coeff)

\* The processing element before the test drives it.
PeUndriven ==
    [rst_n |-> X, enable |-> X, clear |-> X, pixel |-> X, coeff |-> X, acc_in |-> X,
     acc_out |-> X]

\* acc_out after the two edges of a loop pass: the step on the operands on
\* the wires, or an unresolved value.
PeOutVals(d) == {mac_step(d.pixel, d.coeff, d.acc_in), X}

\* expected_sum = sum(p * c for p, c in zip(pixels, coeffs)), over the first
\* k pairs
RECURSIVE ExpectedSum(_, _, _)
ExpectedSum(ps, cs, k) ==
    IF k = 0 THEN 0 ELSE ps[k] * cs[k] + ExpectedSum(ps, cs, k - 1)

\* reset_dut of test_pe.py
PeResetDut ==
    /\ harness = "pe" /\ pc = "idle"
    /\ dut' = [dut EXCEPT !.rst_n = 1, !.enable = 0, !.clear = 0, !.pixel = 0,
                          !.coeff = 0, !.acc_in = 0, !.acc_out = 0]
    /\ pc' = "reset_done"
    /\ UNCHANGED <<config, recorder, modelVars, alignVars, err, row, col, i, sent, outputs,
                   gaussLocals, nmsLocals, cycle, accepted, written>>

\* The four assignments at the head of the loop pass for the pair k
\* (0-based).
PeDrive(d, ps, cs, k, acc) ==
    [d EXCEPT !.clear = Bit(k = 0), !.pixel = ps[k + 1], !.coeff = cs[k + 1],
              !.acc_in = acc]

\* running_sum = 0, dut.enable.value = 1 and the head of the first pass.
PeChainStart ==
    /\ harness = "pe" /\ pc = "reset_done"
    /\ running_sum' = 0
    /\ i' = 0
    /\ IF Len(pixels) > 0
       THEN /\ dut' = PeDrive([dut EXCEPT !.enable = 1], pixels, coeffs, 0, 0)
            /\ pc' = "chain"
       ELSE /\ dut' = [dut EXCEPT !.enable = 1]
            /\ pc' = "compare"
    /\ UNCHANGED <<config, recorder, alignVars, err, row, col, sent, outputs, gaussLocals,
                   nmsLocals, cycle, accepted, written, use_rounding, result, pixels,
                   coeffs>>

\* One pass of the loop over zip(pixels, coeffs): two edges, then
\* running_sum = int(dut.acc_out.value).
PeChainEdge ==
    /\ harness = "pe" /\ pc = "chain"
    /\ \E o \in PeOutVals(dut) :
         IF ~Resolved(o)
         THEN /\ dut' = [dut EXCEPT !.acc_out = o]
              /\ Fail("ValueError")
              /\ UNCHANGED <<i, running_sum>>
         ELSE /\ running_sum' = o
              /\ i' = i + 1
              /\ UNCHANGED err
              /\ IF i + 1 < Min(Len(pixels), Len(coeffs))
                 THEN /\ dut' = PeDrive([dut EXCEPT !.acc_out = o], pixels, coeffs,
                                        i + 1, o)
                      /\ UNCHANGED pc
                 ELSE /\ dut' = [dut EXCEPT !.acc_out = o]
                      /\ pc' = "compare"
    /\ UNCHANGED <<config, recorder, alignVars, row, col, sent, outputs, gaussLocals, nmsLocals,
                   cycle, accepted, written, use_rounding, result, pixels, coeffs>>

AssertChainSum == "running_sum != expected_sum"

\* assert running_sum == expected_sum
PeVerdict ==
    /\ harness = "pe" /\ pc = "compare"
    /\ IF running_sum = ExpectedSum(pixels, coeffs, Min(Len(pixels), Len(coeffs)))
       THEN pc' = "passed" /\ UNCHANGED err
       ELSE Fail(AssertChainSum)
    /\ UNCHANGED <<config, recorder, modelVars, alignVars, dut, row, col, i, sent, outputs,
                   gaussLocals, nmsLocals, cycle, accepted, written>>

\* The operand sequences considered: those of the test, and every pair of
\* sequences of one length up to ChainMaxLen over ChainValues.
PeInit ==
    /\ harness = "pe"
    /\ img_width = 1 /\ img_height = 1
    /\ image = RampImage(1, 1) /\ dir_image = DirPattern(1, 1)
    /\ horizon = "beats"
    /\ dut = PeUndriven
    /\ pc = "idle"
    /\ err = "none"
    /\ row = 0 /\ col = 0 /\ i = 0 /\ sent = 0
    /\ outputs = <<>>
    /\ m_tlast_count = 0 /\ m_tuser_count = 0 /\ flush_cycles = 0 /\ frame_done = FALSE
    /\ idle_left = 0 /\ idle_call = 0 /\ start_len = 0
    /\ cycle = 0
    /\ accepted = <<>>
    /\ written = {}
    /\ expected_flat = <<>>
    /\ max_offset = 0 /\ sample_len = 0
    /\ offset = 0 /\ align_err = None
    /\ use_rounding = TRUE /\ result = None
    /\ \/ pixels = ChainPixels /\ coeffs = ChainCoeffs
       \/ \E n \in 0..ChainMaxLen :
            /\ pixels \in [1..n -> ChainValues]
            /\ coeffs \in [1..n -> ChainValues]
    /\ running_sum = 0
    /\ recorder = NoRecorder

PeNext == PeResetDut \/ PeChainStart \/ PeChainEdge \/ PeVerdict

PeSpec == PeInit /\ [][PeNext]_vars

\* ------------------------------------------------------- cycle trace
\* The signal lists a recorder is configured with: members of the pipeline
\* and "mem", which getattr does not find.
TraceNameLists ==
    {<<>>, <<"m_tvalid">>, <<"m_tvalid", "m_tdata">>, <<"mem", "m_tdata">>}

\* The trace_dir arguments: one that can be created and one below a file.
TraceDirs == {"waveform_dump/test", "/dev/null/traces"}

\* Whether trace_root.mkdir and trace_file.open succeed.
DirUsable(dir) == dir # "/dev/null/traces"

\* How the wrapped test body ends.
BodyOutcomes ==
    {[kind |-> "returned", value |-> v, failure |-> "none"] : v \in {None, 0}}
    \cup {[kind |-> "raised", value |-> None, failure |-> e] :
             e \in {"AssertionError", "ValueError"}}

\* str() of a value int() does not take.
StrOf(v) == "x"

\* Mutant of value_to_json_compatible: an unresolved value is not kept.
value_to_json_strict(v) == IF Resolved(v) THEN JsonInt(v) ELSE JsonStr("ERR")

\* _value_to_json_compatible
value_to_json_compatible(v) == IF Resolved(v) THEN JsonInt(v) ELSE JsonStr(StrOf(v))

\* The entry of one signal name in a sample (lines 74-78).
SampleEntry(d, name) ==
    IF name \in DOMAIN d THEN value_to_json_compatible(d[name]) ELSE JsonStr("ERR")

\* The dict built by one pass of _monitor: the cycle index, then one key per
\* signal name (a later assignment to a key replaces the earlier one).
Sample(d, names, n) ==
    LET keys == {names[k] : k \in 1..Len(names)}
    IN  [key \in {"cycle"} \cup keys |->
            IF key \in keys THEN SampleEntry(d, key) ELSE JsonInt(n)]

\* One pass of the loop of CycleTraceRecorder._monitor, after the edge.
monitor(r, d) ==
    [r EXCEPT !.samples = Append(r.samples, Sample(d, r.signal_names, r.cycle)),
              !.cycle = r.cycle + 1]

\* CycleTraceRecorder.stop
stop(r) == [r EXCEPT !.task = "none"]

\* CycleTraceRecorder.dump: the file it writes, unless mkdir or open raises.
dump(r) ==
    IF DirUsable(r.trace_dir)
    THEN [raised |-> "none",
          file |-> [written |-> TRUE, signals |-> r.signal_names, samples |-> r.samples]]
    ELSE [raised |-> "OSError", file |-> r.trace_file]

\* The pipeline's outputs after an edge of a traced test.
TraceStep(d, v, data) == [d EXCEPT !.m_tvalid = v, !.m_tdata = data]

\* _wrapped up to the call of the test body: the recorder was constructed,
\* recorder.start() starts the monitor task.
TracedStart ==
    /\ harness = "trace" /\ pc = "start"
    /\ recorder' = [recorder EXCEPT !.task = "running"]
    /\ pc' = "body"
    /\ UNCHANGED <<config, modelVars, alignVars, dut, err, row, col, i, sent, outputs,
                   gaussLocals, nmsLocals, cycle, accepted, written>>

\* A rising edge the test body waits for and goes on after; the monitor
\* task samples it.
MonitorEdge ==
    /\ harness = "trace" /\ pc = "body" /\ EdgeAllowed
    /\ \E v \in {0, 1, X}, data \in {3, X} :
         /\ dut' = TraceStep(dut, v, data)
         /\ recorder' = monitor(recorder, dut')
    /\ cycle' = NextCycle
    /\ UNCHANGED <<config, modelVars, alignVars, pc, err, row, col, i, sent, outputs,
                   gaussLocals, nmsLocals, accepted, written>>

\* The test body returns or raises and the finally block of _wrapped runs:
\* stop, dump, log.  The body ends without a further edge, or after one the
\* monitor task sampled before the body ran on, or after one the body ran
\* on first (the task is then cancelled with that edge unsampled).
TracedFinish ==
    /\ harness = "trace" /\ pc = "body"
    /\ \E last \in {"no_edge", "monitor_first", "body_first"}, out \in BodyOutcomes,
          v \in {0, 1, X}, data \in {3, X} :
         LET d1 == IF last = "no_edge" THEN dut ELSE TraceStep(dut, v, data)
             r1 == IF last = "monitor_first" THEN monitor(recorder, d1) ELSE recorder
             r2 == stop(r1)
             written_out == dump(r2)
         IN  /\ (last # "no_edge") => EdgeAllowed
             /\ dut' = d1
             /\ cycle' = IF last = "no_edge" THEN cycle ELSE NextCycle
             /\ recorder' = [r2 EXCEPT !.trace_file = written_out.file, !.body = out]
             /\ IF written_out.raised # "none"
                THEN Fail(written_out.raised) /\ UNCHANGED result
                ELSE IF out.kind = "raised"
                THEN Fail(out.failure) /\ UNCHANGED result
                ELSE pc' = "passed" /\ result' = out.value /\ UNCHANGED err
    /\ UNCHANGED <<harness, img_width, img_height, image, dir_image, horizon, alignVars,
                   row, col, i, sent, outputs, gaussLocals, nmsLocals, accepted, written,
                   use_rounding, pixels, coeffs, running_sum>>

\* A test wrapped by traced_test, from the construction of its recorder.
TraceInit ==
    /\ harness = "trace"
    /\ img_width = 1 /\ img_height = 1
    /\ image = RampImage(1, 1) /\ dir_image = DirPattern(1, 1)
    /\ horizon = "edges"
    /\ dut = Undriven
    /\ pc = "start"
    /\ err = "none"
    /\ row = 0 /\ col = 0 /\ i = 0 /\ sent = 0
    /\ outputs = <<>>
    /\ m_tlast_count = 0 /\ m_tuser_count = 0 /\ flush_cycles = 0 /\ frame_done = FALSE
    /\ idle_left = 0 /\ idle_call = 0 /\ start_len = 0
    /\ cycle = 0
    /\ accepted = <<>>
    /\ written = {}
    /\ expected_flat = <<>>
    /\ max_offset = 0 /\ sample_len = 0
    /\ offset = 0 /\ align_err = None
    /\ use_rounding = TRUE /\ result = None
    /\ pixels = <<>> /\ coeffs = <<>> /\ running_sum = 0
    /\ \E names \in TraceNameLists, dir \in TraceDirs :
          recorder = CycleTraceRecorder(names, dir)

TraceNext == TracedStart \/ MonitorEdge \/ TracedFinish

TraceSpec == TraceInit /\ [][TraceNext]_vars

\* ------------------------------------------- NMS diagonal suppression
\* The direction tags of test_nms.py.
DIR_EW == 0
DIR_NE_SW == 1
DIR_NS == 2
DIR_NW_SE == 3

\* The largest IMG_WIDTH the diagonal-suppression test is run at.
DiagMaxW == 8

Max(a, b) == IF a > b THEN a ELSE b

\* height = max(10, width)
DiagHeight(w) == Max(10, w)

\* r = min(5, height - 2), c = min(5, width - 2)
DiagCentre(w) == <<Min(5, DiagHeight(w) - 2), Min(5, w - 2)>>

\* The element a numpy index selects along an axis of the size given: a
\* negative index counts from the end; None where numpy raises IndexError.
NumpyIndex(k, size) ==
    IF 0 <= k /\ k < size THEN k
    ELSE IF k < 0 /\ k + size >= 0 THEN k + size
    ELSE None

\* mag_image[r, c] = v
SetPixel(img, w, h, r, c, v) ==
    [img EXCEPT ![NumpyIndex(r, h)][NumpyIndex(c, w)] = v]

\* Whether mag_image[r, c] is an element of the h x w array.
InFrame(w, h, r, c) == NumpyIndex(r, h) # None /\ NumpyIndex(c, w) # None

Zeros(w, h) == [r \in 0..(h - 1) |-> [c \in 0..(w - 1) |-> 0]]

\* The three assignments of the test, in its order: the centre, its NE
\* neighbour and its SW neighbour.
DiagWrites(w) ==
    LET rc == DiagCentre(w)
    IN  <<[r |-> rc[1], c |-> rc[2], v |-> 100],
          [r |-> rc[1] - 1, c |-> rc[2] + 1, v |-> 255],
          [r |-> rc[1] + 1, c |-> rc[2] - 1, v |-> 50]>>

\* mag_image after the first n assignments (each of them in the frame).
RECURSIVE DiagFrame(_, _)
DiagFrame(w, n) ==
    IF n = 0 THEN Zeros(w, DiagHeight(w))
    ELSE SetPixel(DiagFrame(w, n - 1), w, DiagHeight(w), DiagWrites(w)[n].r,
                  DiagWrites(w)[n].c, DiagWrites(w)[n].v)

\* The two neighbours a direction tag selects, as (row, column) steps.
NeighbourSteps(direction) ==
    IF direction = DIR_EW THEN <<<<0, 0 - 1>>, <<0, 1>>>>
    ELSE IF direction = DIR_NE_SW THEN <<<<0 - 1, 1>>, <<1, 0 - 1>>>>
    ELSE IF direction = DIR_NS THEN <<<<0 - 1, 0>>, <<1, 0>>>>
    ELSE <<<<0 - 1, 0 - 1>>, <<1, 1>>>>

\* A pixel without a valid neighbour pair.
IsBorder(w, h, r, c) == r = 0 \/ c = 0 \/ r = h - 1 \/ c = w - 1

\* non_max_suppress at one pixel: the magnitude where it is at least both
\* neighbours its direction selects, else zero; zero on the border.
non_max_suppress(mag, dirs, w, h, r, c) ==
    IF IsBorder(w, h, r, c) THEN 0
    ELSE LET steps == NeighbourSteps(dirs[r][c])
             first == mag[r + steps[1][1]][c + steps[1][2]]
             second == mag[r + steps[2][1]][c + steps[2][2]]
         IN  IF mag[r][c] >= first /\ mag[r][c] >= second THEN mag[r][c] ELSE 0

AssertPeakMissing == "Expected max pixel did not appear"
AssertLeak == "Suppressed pixel leaked through output"

\* test_nms_diagonal_suppression up to send_frame: the frame is built, or
\* an assignment raises.
DiagBuild ==
    /\ harness = "nms_diag" /\ pc = "build"
    /\ LET h == DiagHeight(img_width)
           bad == {n \in 1..3 : ~InFrame(img_width, h, DiagWrites(img_width)[n].r,
                                          DiagWrites(img_width)[n].c)}
       IN  IF bad # {}
           THEN /\ Fail("IndexError")
                /\ image' = DiagFrame(img_width, (CHOOSE n \in bad : \A q \in bad : n <= q) - 1)
           ELSE /\ image' = DiagFrame(img_width, 3)
                /\ pc' = "stream"
                /\ UNCHANGED err
    /\ UNCHANGED <<harness, img_width, img_height, dir_image, horizon, recorder, modelVars,
                   alignVars, dut, row, col, i, sent, outputs, gaussLocals, nmsLocals,
                   cycle, accepted, written>>

\* The pipeline emits the next beat of the suppressed frame, in row-major
\* order, and the harness captures it.
DiagBeat ==
    /\ harness = "nms_diag" /\ pc = "stream"
    /\ LET k == Len(outputs)
           r == k \div img_width
           c == k % img_width
       IN  /\ outputs' = Append(outputs,
                  [data |-> non_max_suppress(image, dir_image, img_width, img_height, r, c),
                   last |-> Bit(c = img_width - 1), user |-> Bit(k = 0)])
           /\ pc' = IF k + 1 = expected_pixels THEN "done" ELSE "stream"
    /\ UNCHANGED <<config, recorder, modelVars, alignVars, dut, err, row, col, i, sent,
                   gaussLocals, nmsLocals, cycle, accepted, written>>

\* The assertions on the captured values (no beat followed the frame).
DiagVerdict ==
    /\ harness = "nms_diag" /\ pc = "done"
    /\ LET out_vals == {outputs[k].data : k \in 1..Len(outputs)}
       IN  IF 255 \notin out_vals THEN Fail(AssertPeakMissing)
           ELSE IF 100 \in out_vals THEN Fail(AssertLeak)
           ELSE pc' = "passed" /\ UNCHANGED err
    /\ UNCHANGED <<config, recorder, modelVars, alignVars, dut, row, col, i, sent, outputs,
                   gaussLocals, nmsLocals, cycle, accepted, written>>

\* The test at every configured image width, after reset.
DiagInit ==
    /\ harness = "nms_diag"
    /\ img_width \in 1..DiagMaxW
    /\ img_height = DiagHeight(img_width)
    /\ image = Zeros(img_width, img_height)
    /\ dir_image = [r \in 0..(img_height - 1) |-> [c \in 0..(img_width - 1) |-> DIR_NE_SW]]
    /\ horizon = "beats"
    /\ dut = Deassert(ResetSignals(Undriven))
    /\ pc = "build"
    /\ err = "none"
    /\ row = 0 /\ col = 0 /\ i = 0 /\ sent = 0
    /\ outputs = <<>>
    /\ m_tlast_count = 0 /\ m_tuser_count = 0 /\ flush_cycles = 0 /\ frame_done = FALSE
    /\ idle_left = 0 /\ idle_call = 0 /\ start_len = 0
    /\ cycle = 0
    /\ accepted = <<>>
    /\ written = {}
    /\ expected_flat = <<>>
    /\ max_offset = 0 /\ sample_len = 0
    /\ offset = 0 /\ align_err = None
    /\ ModelIdle

DiagNext == DiagBuild \/ DiagBeat \/ DiagVerdict

DiagSpec == DiagInit /\ [][DiagNext]_vars

\* ------------------------------------------------- backpressure test
\* for _ in range(20)
StreamCycles == 20

AssertReadyLow == "s_tready should be 0 when m_tready is 0"
AssertReadyHigh == "s_tready should be 1 when m_tready is 1"

\* Mutant of ReadyAssert: any resolved value is accepted.
ReadyAssertResolved(v, wanted, message) ==
    IF ~Resolved(v) THEN "ValueError" ELSE "none"

\* assert int(dut.s_tready.value) == wanted, message: what it raises, or
\* "none".
ReadyAssert(v, wanted, message) ==
    IF ~Resolved(v) THEN "ValueError"
    ELSE IF v # wanted THEN message
    ELSE "none"

\* What the pipeline presents after an edge of the backpressure test: any
\* ready value, and a beat or none.
BackOutVecs == {IdleVec, OutVec(1, 128, 0, 0)}

\* "Start streaming": the constant beat is driven, and after one edge
\* s_tuser is lowered.
BackStart ==
    /\ harness = "backpressure" /\ pc = "reset_done"
    /\ \E rdy \in ResetReadyVals, o \in BackOutVecs :
         dut' = [DutStep([dut EXCEPT !.s_tvalid = 1, !.s_tuser = 1, !.s_tdata = 128,
                                     !.m_tready = 1], rdy, o)
                 EXCEPT !.s_tuser = 0]
    /\ pc' = "run"
    /\ i' = 0
    /\ written' = written \cup {"s_tvalid", "s_tuser", "s_tdata", "m_tready"}
    /\ UNCHANGED <<config, recorder, modelVars, alignVars, err, row, col, sent, outputs,
                   gaussLocals, nmsLocals, cycle, accepted>>

\* One pass of "Run for a few cycles"; after the last one m_tready is
\* lowered.
BackRunEdge ==
    /\ harness = "backpressure" /\ pc = "run"
    /\ \E rdy \in ResetReadyVals, o \in BackOutVecs :
         LET d1 == DutStep(dut, rdy, o)
         IN  dut' = IF i + 1 = StreamCycles THEN [d1 EXCEPT !.m_tready = 0] ELSE d1
    /\ i' = i + 1
    /\ pc' = IF i + 1 = StreamCycles THEN "stall" ELSE "run"
    /\ UNCHANGED <<config, recorder, modelVars, alignVars, err, row, col, sent, outputs,
                   gaussLocals, nmsLocals, cycle, accepted, written>>

\* The edge after m_tready was lowered and the first assertion; m_tready
\* is then raised again.
BackStallEdge ==
    /\ harness = "backpressure" /\ pc = "stall"
    /\ \E rdy \in ResetReadyVals, o \in BackOutVecs :
         LET d1 == DutStep(dut, rdy, o)
             failed == ReadyAssert(d1.s_tready, 0, AssertReadyLow)
         IN  IF failed # "none"
             THEN Fail(failed) /\ dut' = d1
             ELSE /\ dut' = [d1 EXCEPT !.m_tready = 1]
                  /\ pc' = "release"
                  /\ UNCHANGED err
    /\ UNCHANGED <<config, recorder, modelVars, alignVars, row, col, i, sent, outputs,
                   gaussLocals, nmsLocals, cycle, accepted, written>>

\* The edge after m_tready was raised and the second assertion.
BackReleaseEdge ==
    /\ harness = "backpressure" /\ pc = "release"
    /\ \E rdy \in ResetReadyVals, o \in BackOutVecs :
         LET d1 == DutStep(dut, rdy, o)
             failed == ReadyAssert(d1.s_tready, 1, AssertReadyHigh)
         IN  /\ dut' = d1
             /\ IF failed # "none" THEN Fail(failed)
                ELSE pc' = "passed" /\ UNCHANGED err
    /\ UNCHANGED <<config, recorder, modelVars, alignVars, row, col, i, sent, outputs,
                   gaussLocals, nmsLocals, cycle, accepted, written>>

\* test_gaussian_stage_backpressure before reset.
BackInit ==
    /\ harness = "backpressure"
    /\ img_width = 1 /\ img_height = 1
    /\ image = RampImage(1, 1) /\ dir_image = DirPattern(1, 1)
    /\ horizon = "beats"
    /\ dut = Undriven
    /\ pc = "idle"
    /\ err = "none"
    /\ row = 0 /\ col = 0 /\ i = 0 /\ sent = 0
    /\ outputs = <<>>
    /\ m_tlast_count = 0 /\ m_tuser_count = 0 /\ flush_cycles = 0 /\ frame_done = FALSE
    /\ idle_left = 0 /\ idle_call = 0 /\ start_len = 0
    /\ cycle = 0
    /\ accepted = <<>>
    /\ written = {}
    /\ expected_flat = <<>>
    /\ max_offset = 0 /\ sample_len = 0
    /\ offset = 0 /\ align_err = None
    /\ ModelIdle

BackNext == ResetDut \/ BackStart \/ BackRunEdge \/ BackStallEdge \/ BackReleaseEdge

BackSpec == BackInit /\ [][BackNext]_vars

\* ------------------------------------------------ vocabulary of the claims
\* The pixel the driver is presenting, counted in row-major order.
Pos ==
    IF harness \in {"gauss", "nms"} THEN row * img_width + col
    ELSE IF harness = "real" THEN i
    ELSE sent

\* A step that waits for one clock edge in a harness loop.
EdgeStep == cycle' = cycle + 1

\* The beat that pixel k of the frame must be driven as: its sample (packed
\* with its direction tag for NMS), user on the first pixel of the frame, last
\* on the pixels of column W-1.
FrameBeat(k) ==
    LET r == k \div img_width
        c == k % img_width
    IN  [data |-> IF harness = "nms" THEN dir_image[r][c] * 4096 + image[r][c]
                  ELSE image[r][c],
         last |-> Bit(c = img_width - 1),
         user |-> Bit(k = 0),
         px   |-> k]

InputSignals(d) == <<d.s_tdata, d.s_tvalid, d.s_tlast, d.s_tuser>>

Deasserted(d) == d.s_tvalid = 0 /\ d.s_tlast = 0 /\ d.s_tuser = 0

\* A sideband flag is high while valid is low.
SidebandViolation(d) == d.m_tvalid = 0 /\ (d.m_tlast = 1 \/ d.m_tuser = 1)

\* One of the sampled output signals is unresolved.
UnresolvedOutput(d) ==
    d.m_tvalid = X \/ d.m_tdata = X \/ d.m_tlast = X \/ d.m_tuser = X

CountLast(s) == Cardinality({j \in 1..Len(s) : s[j].last = 1})
CountUser(s) == Cardinality({j \in 1..Len(s) : s[j].user = 1})

LastPixelAccepted == \E j \in 1..Len(accepted) : accepted[j].px = expected_pixels - 1

\* ---------------------------------------------------------------- C1
\* The step relation of C1.
C1_Step ==
    harness \in {"gauss", "nms"} =>
        /\ (pc = "stream" /\ EdgeStep /\ dut.s_tready # 1) =>
               (InputSignals(dut') = InputSignals(dut) /\ Pos' = Pos)
        /\ (Pos' # Pos) => (dut.s_tready = 1 /\ Pos' = Pos + 1 /\ EdgeStep)
        /\ (pc' = "stream") => dut'.s_tvalid = 1
        /\ Len(accepted') \in {Pos', Pos' + 1}
        /\ (Len(accepted') = Pos' + 1) => pc' = "failed"
        /\ \A j \in 1..Len(accepted') : accepted'[j] = FrameBeat(j - 1)
        /\ (pc' \in {"drain", "done"}) => Len(accepted') = expected_pixels

\* C1: in send_frame of the Gaussian stage and of NMS the driven beat is
\* valid and unchanged over every edge before which the consumer was not
\* ready, the driver moves on (by one pixel) only over an edge before which
\* it was ready, and so the pipeline takes the pixels of the frame in order,
\* each exactly once and as the frame holds it.
C1_HeldUntilReady == [][C1_Step]_vars

\* A frame of at least two pixels was sent completely, with a stall.
C1_Witness ==
    /\ harness \in {"gauss", "nms"} /\ pc = "drain"
    /\ expected_pixels >= 2 /\ cycle > expected_pixels
    /\ Len(accepted) = expected_pixels

\* ---------------------------------------------------------------- C2
\* The step relation of C2.
C2_Step ==
    /\ (EdgeStep /\ pc = "stream" /\ Pos < expected_pixels) =>
          /\ (IF harness = "sobel" THEN InputBeat(dut', Pos) ELSE InputBeat(dut, Pos))
                 = FrameBeat(Pos)
          /\ (IF harness = "sobel" THEN dut'.s_tvalid ELSE dut.s_tvalid) = 1
    /\ Pos' \in {Pos, Pos + 1}
    /\ \A j \in 1..Len(accepted') : accepted'[j] = FrameBeat(accepted'[j].px)
    /\ (harness \in {"gauss", "nms"} /\ pc' \in {"drain", "done"}) =>
          /\ CountLast(accepted') = img_height
          /\ CountUser(accepted') = 1

\* C2: at every edge of a stimulus loop the driven beat is the one of the
\* pixel the driver stands at (row-major: sample of row k div W, column
\* k mod W; user exactly on pixel 0; last exactly on column W-1), the
\* driver moves by at most one pixel per edge, and a completely sent frame
\* (Gaussian stage, NMS) holds exactly H last beats and one user beat.
C2_RowMajorMarkers == [][C2_Step]_vars

\* The driver of a 2x2 frame stands at the first pixel of the second row.
C2_Witness ==
    /\ img_width = 2 /\ img_height = 2 /\ pc = "stream" /\ Pos = 2
    /\ dut.s_tdata = FrameBeat(2).data /\ dut.s_tlast = 0 /\ dut.s_tuser = 0

\* ---------------------------------------------------------------- C3
\* The step relation of C3.
C3_Step ==
    (Len(outputs') > Len(outputs)) =>
        /\ EdgeStep
        /\ Len(outputs') = Len(outputs) + 1
        /\ dut'.m_tvalid = 1
        /\ dut'.m_tready = 1

\* C3: the captured stream grows over a step only by one beat and only
\* when the sampled m_tvalid and m_tready are both 1 after that edge.
C3_CaptureOnlyOnHandshake == [][C3_Step]_vars

\* Beats were captured in some cycles and not in another.
C3_Witness == Len(outputs) >= 1 /\ cycle > Len(outputs) /\ dut.m_tvalid = 0

\* ---------------------------------------------------------------- C4
\* The step relation of C4.
C4_Step ==
    harness = "nms" =>
        /\ pc # "failed"
        /\ (EdgeStep /\ SidebandViolation(dut')) =>
              /\ pc' = "failed"
              /\ err' = (IF dut'.m_tlast = 1 THEN AssertLast ELSE AssertUser)
              /\ outputs' = outputs
              /\ Pos' = Pos
              /\ InputSignals(dut') = InputSignals(dut)

C5_Step ==
    (EdgeStep /\ SidebandViolation(dut')) =>
        (pc' = "failed" /\ err' \in {AssertLast, AssertUser})

\* C5: in every capture loop, every edge after which a sideband flag is
\* high with m_tvalid low is caught by the sideband assertion.
C5_SidebandCheckedEveryCycle == [][C5_Step]_vars

\* ---------------------------------------------------------------- C6
\* The step relation of C6.
C6_Step == (EdgeStep /\ UnresolvedOutput(dut')) => (err' = "none" /\ pc' # "failed")

\* C6: an edge after which a sampled output signal is unresolved does not
\* raise: the run goes on.
C6_UnresolvedTolerated == [][C6_Step]_vars

\* ---------------------------------------------------------------- C7
\* The step relation of C7.
C7_Step ==
    (harness \in {"gauss", "nms", "sobel"} /\ pc = "stream" /\ EdgeStep
        /\ Resolved(dut.s_tready) /\ err' = "none" /\ Pos < expected_pixels) =>
        ((Pos' # Pos) <=> (dut.s_tready = 1))

\* C7: in the driver loops that decide on ready (Gaussian stage, NMS,
\* Sobel) the driver moves to the next pixel over an edge exactly when the
\* ready value before that edge was 1 (unless the edge ended the run).
C7_ReadySampledBeforeEdge == [][C7_Step]_vars

\* ---------------------------------------------------------------- C8
\* C8: when the real-image driver has left its loop, the pipeline has
\* taken every pixel of the frame exactly once, in order.
C8_RealImageHonorsHandshake ==
    (harness = "real" /\ pc \in {"final", "done"}) =>
        /\ Len(accepted) = expected_pixels
        /\ \A j \in 1..Len(accepted) : accepted[j] = FrameBeat(j - 1)

\* ---------------------------------------------------------------- C9
\* The step relation of C9.
C9_Step ==
    harness \in {"gauss", "nms", "real"} =>
        /\ (LastPixelAccepted' /\ err' = "none") => Deasserted(dut')
        /\ LastPixelAccepted => (Deasserted(dut) /\ Deasserted(dut'))

\* C9: (Gaussian stage, NMS, real-image) the edge at which the pipeline
\* takes the last pixel leaves s_tvalid, s_tlast and s_tuser low unless it
\* ends the run, and every later step of the run starts and ends with them
\* low.
C9_DeassertedAfterFrame == [][C9_Step]_vars

\* The clock ran on after the last pixel of a frame was taken.
C9_Witness ==
    /\ harness \in {"gauss", "nms", "real"} /\ LastPixelAccepted
    /\ cycle > Len(accepted) /\ pc \in {"drain", "done"} /\ Deasserted(dut)
    /\ (harness = "gauss" => flush_cycles >= 1)

\* ---------------------------------------------------------------- C10
\* The advance of the driver over an edge, as a function of the ready value
\* before it alone.
AdvanceByReady(ready) ==
    IF harness = "real" THEN 1 ELSE IF ready = 1 THEN 1 ELSE 0

\* The step relation of C10 as stated.
C10_OriginalStep ==
    harness \in {"gauss", "nms", "real"} =>
        /\ written' \subseteq InputPort
        /\ (pc # "idle") => (dut'.m_tready = dut.m_tready /\ dut'.rst_n = dut.rst_n)
        /\ (pc = "stream" /\ EdgeStep) => Pos' = Pos + AdvanceByReady(dut.s_tready)

\* C10 as stated: the drivers of the Gaussian stage, NMS and real-image
\* harness assign only s_tdata, s_tvalid, s_tlast and s_tuser, m_tready and
\* rst_n keep their value, and the advance over an edge is decided by
\* s_tready alone.
C10_Original == [][C10_OriginalStep]_vars

\* The step relation of C10 as amended.
C10_AmendedStep ==
    harness \in {"gauss", "nms", "real"} =>
        /\ written' \subseteq
               (InputPort \cup (IF harness = "real" THEN {"m_tready"} ELSE {}))
        /\ (pc # "idle") => (dut'.m_tready = dut.m_tready /\ dut'.rst_n = dut.rst_n)
        /\ (pc = "stream" /\ EdgeStep /\ err' = "none") =>
               Pos' = Pos + AdvanceByReady(dut.s_tready)
        /\ (err' # "none") => (Pos' = Pos /\ InputSignals(dut') = InputSignals(dut))

\* C10 as amended: the real-image driver also assigns m_tready (to the value
\* 1 it already has); m_tready and rst_n keep their value; over an edge that
\* does not end the run the advance is decided by s_tready alone, and an edge
\* that ends the run (assertion or conversion error in the monitor code of
\* the same loop) leaves the driver where it was.
C10_Amended == [][C10_AmendedStep]_vars

\* The drivers have written, stalled and advanced; a monitor failure stopped one.
C10_Witness ==
    /\ harness = "nms" /\ pc = "failed" /\ err = AssertLast
    /\ Pos >= 1 /\ cycle > Pos + 1 /\ written = InputPort

\* ---------------------------------------------------------------- C11
\* What the monitor code of the harness records for the output port it
\* sampled.
CapturedEntry(d) ==
    IF harness = "gauss" THEN d.m_tdata
    ELSE IF harness = "nms"
    THEN [data |-> d.m_tdata, last |-> d.m_tlast, user |-> d.m_tuser]
    ELSE IF harness = "real"
    THEN [data |-> IF d.m_tdata = X THEN 0 ELSE d.m_tdata, resolved |-> d.m_tdata # X]
    ELSE d.m_tdata % 256

\* The step relation of C11.
C11_Step ==
    \/ outputs' = outputs
    \/ /\ EdgeStep
       /\ outputs' = Append(outputs, CapturedEntry(dut'))

\* C11: over every step the captured stream either stays as it is or is
\* extended at its end by one entry; it is extended only over a clock edge,
\* and the entry is what the monitor code records for the output port
\* sampled after that edge (steps of the driver alone leave it unchanged).
C11_AppendOnly == [][C11_Step]_vars

\* The NMS monitor has captured two different beats.
C11_Witness ==
    /\ harness = "nms" /\ Len(outputs) >= 2 /\ outputs[1] # outputs[2]
    /\ pc \in {"stream", "drain"}

\* ---------------------------------------------------------------- C13
\* The step relation of C13.
C13_Step ==
    (harness = "gauss" /\ pc = "drain" /\ Len(outputs) >= expected_pixels) => ~EdgeStep

\* C13: once W*H beats have been captured, the drain loop of send_frame
\* waits for no further clock edge.
C13_DrainStopsAtExpectedCount == [][C13_Step]_vars

\* ---------------------------------------------------------------- C14
\* C14: in the drain phase of send_frame, when the end-of-line markers
\* counted in the run (streaming and drain together) have reached H, the
\* completion flag is set, so that the loop ends without the warning.
C14_DrainEndsAtExpectedLines ==
    (harness = "gauss" /\ pc \in {"drain", "done"} /\ m_tlast_count >= img_height) =>
        frame_done

\* ---------------------------------------------------------------- C12
\* C12: a Gaussian-stage or NMS test run that passed captured exactly W*H
\* beats, H end-of-row markers and one start-of-frame marker.
C12_PassedRunHasExactCounts ==
    (pc = "passed") =>
        /\ Len(outputs) = expected_pixels
        /\ (harness = "gauss") => (m_tlast_count = img_height /\ m_tuser_count = 1)
        /\ (harness = "nms") => (SumLast(outputs) = img_height /\ SumUser(outputs) = 1)

\* ---------------------------------------------------------------- C15
\* C15: the drain loop of send_frame waits for at most 16*(W*H) + 1024
\* clock edges, and when it has waited for that many it is left.
C15_DrainBounded ==
    harness = "gauss" =>
        /\ flush_cycles <= 16 * (img_width * img_height) + 1024
        /\ (pc = "drain" /\ flush_cycles = 16 * (img_width * img_height) + 1024)
               => ~ENABLED GaussDrainEdge

\* The whole budget was spent without the frame being complete.
C15_Witness ==
    /\ harness = "gauss" /\ pc = "done" /\ ~frame_done
    /\ flush_cycles = 16 * (img_width * img_height) + 1024

\* ---------------------------------------------------------------- C16
\* The step relation of C16.
C16_Step ==
    (harness = "gauss" /\ pc = "drain" /\ ~frame_done
        /\ flush_cycles >= MaxFlushCycles(expected_pixels)) =>
        /\ pc' = "done" /\ err' = "none"
        /\ outputs' = outputs
        /\ m_tlast_count' = m_tlast_count /\ m_tuser_count' = m_tuser_count

\* C16: when the drain budget is spent and the frame is not complete, the
\* one step send_frame takes is its return, without an exception and with
\* the captured beats and the marker counts as they were.
C16_TimeoutReturnsPartial == [][C16_Step]_vars

\* send_frame returned after the timeout with one beat of two.
C16_Witness ==
    /\ harness = "gauss" /\ pc = "done" /\ err = "none" /\ ~frame_done
    /\ flush_cycles = MaxFlushCycles(expected_pixels)
    /\ Len(outputs) = 1 /\ expected_pixels = 2

\* ---------------------------------------------------------------- C18
\* The run is over: the test passed or failed (the Sobel and real-image
\* functions returned).
Terminated ==
    \/ pc \in {"passed", "failed"}
    \/ (harness \in {"real", "sobel"} /\ pc = "done")

\* C18: every run comes to its end.
C18_EveryRunTerminates == <>Terminated

\* ---------------------------------------------------------------- C19
\* The call of _best_alignment_offset the state holds: its window length,
\* its window starts, the last offset it searches, the offsets it computes
\* an error for, and the average window error of offset o.
AlignChunk == ChunkLen(Len(outputs), sample_len)
AlignStarts == Starts(Len(outputs), AlignChunk)
AlignLast == ClampedMaxOffset(max_offset, Len(expected_flat), AlignStarts, AlignChunk)
Candidates ==
    IF UsedWindows(ResolvedOf(outputs), AlignStarts, AlignChunk) = {} THEN {}
    ELSE 0..AlignLast
ErrAt(o) ==
    OffsetErr(ObservedOf(outputs), ResolvedOf(outputs), expected_flat, o, AlignStarts,
              AlignChunk)

FracLeq(a, b) == a.num * b.den <= b.num * a.den

\* The latencies L <= max_offset the capture can stem from: it is resolved
\* throughout and equals the reference stream from sample L on.
Latencies ==
    {L \in 0..max_offset :
        /\ L + Len(outputs) <= Len(expected_flat)
        /\ \A j \in 1..Len(outputs) :
              outputs[j].resolved /\ outputs[j].data = expected_flat[L + j]}

\* C19 as stated: for a capture that is the noiseless reference delayed by
\* L, the search returns offset L with error exactly 0.
C19_Original ==
    (pc # "align" /\ sample_len >= 1) =>
        \A L \in Latencies : pc = "aligned" /\ offset = L /\ ErrIsZero(align_err)

\* C19 as amended: for such a capture the search returns error exactly 0
\* and the smallest offset whose sampled windows match the reference; that
\* offset is at most L, and it is L when no smaller offset matches.
C19_Amended ==
    (pc # "align" /\ sample_len >= 1 /\ Latencies # {}) =>
        /\ pc = "aligned" /\ ErrIsZero(align_err)
        /\ \A L \in Latencies : offset <= L
        /\ offset \in Candidates /\ ErrIsZero(ErrAt(offset))
        /\ \A o \in 0..(offset - 1) : ~ErrIsZero(ErrAt(o))

\* A latency of two samples was recovered.
C19_Witness ==
    /\ pc = "aligned" /\ sample_len >= 1
    /\ Latencies = {2} /\ offset = 2 /\ ErrIsZero(align_err)

\* ---------------------------------------------------------------- C20
\* C20: the search returns an offset it computed an error for and that
\* error; no computed error is lower, and every smaller offset has a
\* higher one (so a zero error is returned with the smallest offset that
\* has it).  When it computes no error it returns offset 0 and infinity.
C20_ReturnsLowestError ==
    (pc = "aligned") =>
        IF Candidates = {} THEN offset = 0 /\ align_err = Inf
        ELSE /\ offset \in Candidates
             /\ align_err = ErrAt(offset)
             /\ \A o \in Candidates : FracLeq(align_err, ErrAt(o))
             /\ \A o \in Candidates : (o < offset) => ~FracLeq(ErrAt(o), align_err)

\* Several windows were averaged; the lowest error is not zero and a later
\* offset has it too.
C20_Witness ==
    /\ pc = "aligned" /\ offset \in Candidates /\ ~ErrIsZero(align_err)
    /\ \E o \in Candidates : o > offset /\ FracLeq(ErrAt(o), align_err)
    /\ Len(AlignStarts) > 1

\* ---------------------------------------------------------------- C17
\* C17: a run whose capture holds fewer than W*H beats does not pass.
C17_TruncatedNeverPasses ==
    (Len(outputs) < expected_pixels) => pc # "passed"

\* ---------------------------------------------------------------- C21
\* The run went past the alignment search (the search returned).
AlignmentReturned ==
    \/ pc = "passed"
    \/ pc = "failed" /\ err \in {AssertOutOfRange, AssertNoComparable, AssertMismatch}

\* The best alignment error the search found is above the tolerance of the
\* test, so no candidate offset is within it.
NoOffsetWithinTolerance ==
    /\ AlignmentReturned
    /\ ErrLess(Frac(MaxDiffAllowed, 1), align_err)

\* C21: when no candidate offset has an alignment error within the
\* tolerance, the run fails at the alignment step and reaches no comparison
\* verdict (neither a pass nor a failure of the comparison).
C21_NoMatchFailsAtAlignment ==
    NoOffsetWithinTolerance
        => (pc = "failed" /\ err \notin {AssertNoComparable, AssertMismatch})

\* ---------------------------------------------------------------- C22
\* Half the width of the kernel, rounded down.
KernelHalfWidth == Len(GAUSSIAN_KERNEL) \div 2

\* The samples of the capture (1-based) that the comparison of the finished
\* run took into account, from the offset the run settled on.
ComparedNow ==
    ComparedSamples(ResolvedOf(outputs), offset,
                    Min(Len(outputs), Len(expected_flat) - offset),
                    img_width, img_height)

\* The run computed max_diff: it passed or failed on the mismatch assertion.
ComparisonReached == pc = "passed" \/ (pc = "failed" /\ err = AssertMismatch)

\* The reference index idx is at least KernelHalfWidth away from every edge
\* of the frame.
AwayFromEdges(idx) ==
    LET r == idx \div img_width
        c == idx % img_width
    IN  /\ r >= KernelHalfWidth /\ (img_height - 1) - r >= KernelHalfWidth
        /\ c >= KernelHalfWidth /\ (img_width - 1) - c >= KernelHalfWidth

\* C22: every sample that enters the max-difference computation is resolved
\* and lies, at its position in the reference frame, at least
\* KernelHalfWidth away from every frame edge.
C22_OnlyResolvedInteriorCompared ==
    ComparisonReached =>
        \A j \in ComparedNow :
            outputs[j].resolved /\ AwayFromEdges((j - 1) + offset)

\* A finished comparison at a non-zero offset whose capture holds an
\* unresolved sample and border samples that differ from the reference.
C22_Witness ==
    /\ ComparisonReached
    /\ offset > 0
    /\ Cardinality(ComparedNow) >= 2
    /\ \E j \in 1..Len(outputs) : ~outputs[j].resolved
    /\ \E j \in 1..Min(Len(outputs), Len(expected_flat) - offset) :
           /\ ~AwayFromEdges((j - 1) + offset)
           /\ outputs[j].data # expected_flat[offset + j]

\* ---------------------------------------------------------------- C23
\* C23: a run in which no sample is comparable does not pass; it fails.
C23_EmptyMaskFails ==
    (pc \in {"passed", "failed"} /\ ComparedNow = {}) => pc = "failed"

\* A run that reached the mask with every captured sample unresolved, and
\* failed.
C23_Witness ==
    /\ pc = "failed" /\ err = AssertNoComparable
    /\ Len(outputs) > 0
    /\ ComparedNow = {}
    /\ \A j \in 1..Len(outputs) : ~outputs[j].resolved

\* ---------------------------------------------------------------- C24
\* The run reached the mask with a usable window and found it non-empty.
MaskedComparison ==
    /\ AlignmentReturned /\ err # AssertOutOfRange
    /\ ComparedNow # {}

\* C24: with a non-empty mask the run passes exactly when every masked
\* sample is within the tolerance of its reference sample at the chosen
\* offset, and fails otherwise.
C24_PassIffWithinTolerance ==
    MaskedComparison =>
        /\ pc \in {"passed", "failed"}
        /\ (pc = "passed") <=>
               \A j \in ComparedNow :
                   AbsDiff(outputs[j].data, expected_flat[offset + j]) <= MaxDiffAllowed

\* A failed comparison in which one masked sample is within the tolerance
\* and another is not.
C24_Witness ==
    /\ MaskedComparison /\ pc = "failed"
    /\ \E j, k \in ComparedNow :
           /\ AbsDiff(outputs[j].data, expected_flat[offset + j]) <= MaxDiffAllowed
           /\ AbsDiff(outputs[k].data, expected_flat[offset + k]) > MaxDiffAllowed

\* ---------------------------------------------------------------- C25
\* The phase of the run the test coroutine is in: 0 idle, 1 resetting,
\* 2 streaming, 3 flushing, 4 aligning, 5 comparing, 6 passed or failed.
PhaseRank ==
    IF pc = "idle" THEN 0
    ELSE IF pc \in {"reset_done", "reset_again"} THEN 1
    ELSE IF pc \in {"drive", "drive_done", "stream"} THEN 2
    ELSE IF pc \in {"drain", "final", "flush", "done"} THEN 3
    ELSE IF pc \in {"align", "aligned"} THEN 4
    ELSE IF pc = "compare" THEN 5
    ELSE 6

\* C25: a run goes through its phases in order and never re-enters an
\* earlier one: in particular there is no reset once streaming has begun.
C25_PhasesInOrder == [][PhaseRank' >= PhaseRank]_vars

\* ---------------------------------------------------------------- C26
\* C26: for the window that is 0 everywhere and 255 at the centre tap,
\* gaussian_single_window with rounding returns exactly 36.
C26_ImpulseResponse ==
    (pc = "window_out" /\ use_rounding /\ image = Impulse(2, 2, 255, 0)) => result = 36

\* The call on the centre impulse has returned.
C26_Witness == pc = "window_out" /\ use_rounding /\ image = Impulse(2, 2, 255, 0)

\* ---------------------------------------------------------------- C27
\* The products of the taps of row r of the window in the state with the
\* coefficients of row r of the kernel, added up.
RowDot(r) ==
    image[r][0] * GAUSSIAN_KERNEL[r + 1][1] + image[r][1] * GAUSSIAN_KERNEL[r + 1][2]
    + image[r][2] * GAUSSIAN_KERNEL[r + 1][3] + image[r][3] * GAUSSIAN_KERNEL[r + 1][4]
    + image[r][4] * GAUSSIAN_KERNEL[r + 1][5]

\* The dot product of the window in the state with the kernel.
DotWithKernel == RowDot(0) + RowDot(1) + RowDot(2) + RowDot(3) + RowDot(4)

\* C27: gaussian_single_window returns the dot product of the window with
\* the kernel, normalized as (sum + 128) >> 8 with rounding and sum >> 8
\* without, then clipped to 0..255.
C27_SingleWindowIsNormalizedDot ==
    pc = "window_out" =>
        LET shifted == IF use_rounding THEN (DotWithKernel + 128) \div 256
                       ELSE DotWithKernel \div 256
        IN  result = (IF shifted < 0 THEN 0 ELSE IF shifted > 255 THEN 255 ELSE shifted)

\* A call without rounding returned where rounding would have given one
\* more.
C27_Witness ==
    /\ pc = "window_out" /\ ~use_rounding
    /\ (DotWithKernel % 256) >= 128
    /\ result = DotWithKernel \div 256

\* ---------------------------------------------------------------- C28
\* The sample of the frame in the state at (r, c), positions outside the
\* frame taking the nearest sample of the edge.
EdgeSample(r, c) ==
    image[IF r < 0 THEN 0 ELSE IF r >= img_height THEN img_height - 1 ELSE r]
         [IF c < 0 THEN 0 ELSE IF c >= img_width THEN img_width - 1 ELSE c]

\* The 5x5 window centred at (r, c) of the frame in the state.
WindowAt(r, c) == [a \in 0..4 |-> [b \in 0..4 |-> EdgeSample(r + a - 2, c + b - 2)]]

\* C28: at every pixel the full-frame reference equals the single-window
\* reference on the 5x5 window centred there (edges replicated), with the
\* same rounding flag.
C28_FilterRefIsWindowed ==
    pc = "frame_out" =>
        \A r \in 0..(img_height - 1), c \in 0..(img_width - 1) :
            result[r][c] = gaussian_single_window(WindowAt(r, c), use_rounding)

\* A frame wider and higher than one pixel, not uniform, was filtered.
C28_Witness ==
    /\ pc = "frame_out" /\ img_width > 1 /\ img_height > 1
    /\ image[0][0] # image[img_height - 1][img_width - 1]
    /\ result[0][0] # result[img_height - 1][img_width - 1]

\* ---------------------------------------------------------------- C29
\* The window in the state has a dot product v in 0..255 and the call
\* normalized it with rounding.
ClippedValueNormalized == pc = "window_out" /\ use_rounding /\ DotWithKernel \in Pixels

\* C29 as stated: normalizing the result of the normalization of a value in
\* 0..255 again gives the same result.
C29_Original ==
    ClippedValueNormalized => Normalize(result, TRUE) = result

\* C29 amended: the normalization of a value v in 0..255 gives 0 for
\* v < 128 and 1 otherwise, and normalizing that result again gives 0, so
\* the result is stable under re-application exactly when v < 128.
C29_Amended ==
    ClippedValueNormalized =>
        /\ result = (IF DotWithKernel < 128 THEN 0 ELSE 1)
        /\ Normalize(result, TRUE) = 0
        /\ (Normalize(result, TRUE) = result) <=> (DotWithKernel < 128)

\* A value of at least 128 was normalized.
C29_Witness == ClippedValueNormalized /\ DotWithKernel >= 128 /\ result = 1

\* ---------------------------------------------------------------- C30
\* The sum of the products of the first k operand pairs, from the first
\* pair on.
RECURSIVE PairSum(_, _)
PairSum(j, k) == IF j > k THEN 0 ELSE pixels[j] * coeffs[j] + PairSum(j + 1, k)

\* C30: chaining acc_out = acc_in + pixel*coeff from accumulator 0 over the
\* operand pairs yields the sum of the pairwise products, unsaturated; for
\* pixels 10, 20, 30, 40, 50 and coefficients 1, 2, 3, 4, 5 it yields 550.
C30_ChainIsSumOfProducts ==
    (harness = "pe" /\ pc \in {"chain", "compare", "passed"}) =>
        /\ running_sum = PairSum(1, i)
        /\ (pc = "compare" /\ pixels = ChainPixels /\ coeffs = ChainCoeffs)
               => running_sum = 550

\* A chain of three steps ended above the range of 16 bits.
C30_Witness ==
    /\ harness = "pe" /\ pc = "passed" /\ i = 3
    /\ running_sum > 65535

\* ---------------------------------------------------------------- C33
\* C33: the search samples at most four windows of one length, the
\* smallest of 2048, sample_len and the capture's length: one window at 0
\* when the capture is no longer than that, else windows at 0, a third and
\* two thirds of the slack, and the slack; every window lies inside the
\* capture and the starts do not decrease.
C33_WindowsInsideCapture ==
    (pc = "aligned") =>
        LET size == Len(outputs)
            slack == size - AlignChunk
        IN  /\ AlignChunk \in {2048, sample_len, size}
            /\ AlignChunk <= 2048 /\ AlignChunk <= sample_len /\ AlignChunk <= size
            /\ Len(AlignStarts) <= 4
            /\ (size <= AlignChunk) => AlignStarts = <<0>>
            /\ (size > AlignChunk) =>
                  AlignStarts = <<0, slack \div 3, (2 * slack) \div 3, slack>>
            /\ \A q \in 1..Len(AlignStarts) :
                  AlignStarts[q] >= 0 /\ AlignStarts[q] + AlignChunk <= size
            /\ \A q \in 1..(Len(AlignStarts) - 1) : AlignStarts[q] <= AlignStarts[q + 1]

\* Four windows of one sample each were placed on a capture of three.
C33_Witness ==
    /\ pc = "aligned" /\ Len(outputs) = 3 /\ AlignChunk = 1
    /\ AlignStarts = <<0, 0, 1, 2>>

\* ---------------------------------------------------------------- C34
\* The captures that agree with the state's on the resolved mask and on
\* every resolved sample.
AgreeingCaptures ==
    {alt \in [1..Len(outputs) -> SampleValues] :
        \A j \in 1..Len(outputs) : outputs[j].resolved => alt[j] = outputs[j].data}

\* C34: the search's result does not depend on the data at unresolved
\* positions: every capture that agrees on the mask and on the resolved
\* samples gets the same offset and error; and when no window has a
\* resolved sample no offset is selected (the result is 0 and infinity),
\* while a selected offset always has a finite error.
C34_UnresolvedDataIgnored ==
    (pc = "aligned") =>
        /\ \A alt \in AgreeingCaptures :
              LET found == BestAlignmentOffset(alt, ResolvedOf(outputs), expected_flat,
                                               max_offset, sample_len)
              IN  found.raised = "none" /\ found.offset = offset
                  /\ found.err = align_err
        /\ (UsedWindows(ResolvedOf(outputs), AlignStarts, AlignChunk) = {}) =>
              (offset = 0 /\ align_err = Inf)
        /\ (align_err # Inf) =>
              UsedWindows(ResolvedOf(outputs), AlignStarts, AlignChunk) # {}

\* A window mixing resolved and unresolved samples was scored, and the
\* reference differs from 0 under an unresolved sample.
C34_Witness ==
    /\ pc = "aligned" /\ AlignChunk >= 2 /\ align_err # Inf
    /\ \E j \in 1..AlignChunk :
          (~outputs[j].resolved) /\ expected_flat[offset + j] = 1
    /\ \E j \in 1..AlignChunk : outputs[j].resolved
    /\ Cardinality(AgreeingCaptures) > 1

\* ---------------------------------------------------------------- C37
\* C37: every slice of the reference the search reads is in range: for
\* every offset it evaluates and every window start, offset + start +
\* chunk_len is at most the reference's length; the offset returned is
\* between 0 and the caller's max_offset; and when no offset can be
\* evaluated the result is offset 0 with infinite error.
C37_ReferenceSlicesInRange ==
    /\ (Len(outputs) > 0 /\ AlignChunk > 0) =>
          \A o \in 0..AlignLast : \A q \in 1..Len(AlignStarts) :
              o + AlignStarts[q] + AlignChunk <= Len(expected_flat)
    /\ (pc = "aligned") =>
          /\ 0 <= offset /\ offset <= max_offset
          /\ (Candidates = {}) => (offset = 0 /\ align_err = Inf)

\* The clamp cut the caller's bound and the last offset allowed was
\* returned; and a reference shorter than the capture left no offset.
C37_Witness ==
    /\ pc = "aligned" /\ AlignLast < max_offset /\ offset = AlignLast /\ offset > 0
    /\ Len(AlignStarts) = 4

\* ---------------------------------------------------------------- C36
\* C36: in the real-image capture loop the outputs recorded never outnumber
\* the input beats driven so far, which never outnumber the W*H pixels:
\* every write is inside the buffers and the returned stream has at most
\* W*H samples.
C36_CaptureWithinBeats ==
    (harness = "real") => (Len(outputs) <= i /\ i <= expected_pixels)

\* A frame of two pixels returned a capture of two samples.
C36_Witness ==
    /\ harness = "real" /\ pc = "done"
    /\ expected_pixels >= 2 /\ Len(outputs) = expected_pixels

\* ---------------------------------------------------------------- C38
\* C38: in send_frame the two marker counters never exceed the number of
\* captured beats, the three counters never decrease, and frame_done is
\* set only with m_tlast_count >= H.
C38_CountersWithinCapture ==
    [][(harness = "gauss") =>
          /\ m_tlast_count' <= Len(outputs') /\ m_tuser_count' <= Len(outputs')
          /\ m_tlast_count' >= m_tlast_count /\ m_tuser_count' >= m_tuser_count
          /\ Len(outputs') >= Len(outputs)
          /\ frame_done' => (m_tlast_count' >= img_height)]_vars

\* The drain saw the second end-of-line marker of a two-line frame, after
\* beats without a marker.
C38_Witness ==
    /\ harness = "gauss" /\ pc = "drain" /\ frame_done
    /\ img_height = 2 /\ m_tlast_count = 2 /\ Len(outputs) > 2

\* ---------------------------------------------------------------- C39
\* C39: each pass of the Sobel loop takes exactly one clock edge; sent and
\* captured never decrease, grow by at most one per pass and stay within
\* 0..W*H; an output is written only at an index below W*H; and the loop
\* is left only with captured = W*H.
C39_SobelLoopBounded ==
    [][(harness = "sobel") =>
          /\ sent' >= sent /\ sent' <= sent + 1 /\ sent' <= expected_pixels
          /\ Len(outputs') >= Len(outputs) /\ Len(outputs') <= Len(outputs) + 1
          /\ Len(outputs') <= expected_pixels
          /\ (outputs' # outputs) => Len(outputs) < expected_pixels
          /\ (pc = "stream" /\ pc' # "done") => cycle' = cycle + 1
          /\ (pc = "stream" /\ pc' = "done") =>
                (cycle' = cycle /\ Len(outputs) = expected_pixels)]_vars

\* The loop was left after a frame of two pixels, an idle pass included.
C39_Witness ==
    /\ harness = "sobel" /\ pc = "done"
    /\ expected_pixels = 2 /\ sent = 2 /\ Len(outputs) = 2 /\ cycle > 2

\* ---------------------------------------------------------------- C35
\* C35: when the wrapped body has ended, returned or raised, the recorder
\* is stopped and the trace is written, and the test reports the body's
\* outcome: its return value or the failure it raised.
C35_TracingKeepsOutcome ==
    (harness = "trace" /\ recorder.body.kind # "running") =>
        /\ recorder.task = "none"
        /\ recorder.trace_file.written
        /\ (recorder.body.kind = "returned") =>
              (pc = "passed" /\ result = recorder.body.value)
        /\ (recorder.body.kind = "raised") =>
              (pc = "failed" /\ err = recorder.body.failure)

\* ---------------------------------------------------------------- C40
\* The sample the monitor appended in this step, for the signals after it.
SampledNow(k) ==
    LET sample == recorder'.samples[k]
        names == recorder.signal_names
    IN  /\ sample["cycle"].kind = "int" /\ sample["cycle"].int = k - 1
        /\ \A q \in 1..Len(names) :
              /\ names[q] \in DOMAIN sample
              /\ IF names[q] \notin DOMAIN dut'
                 THEN sample[names[q]].kind = "str" /\ sample[names[q]].str = "ERR"
                 ELSE IF Resolved(dut'[names[q]])
                 THEN /\ sample[names[q]].kind = "int"
                      /\ sample[names[q]].int = dut'[names[q]]
                 ELSE /\ sample[names[q]].kind = "str"
                      /\ sample[names[q]].str # "ERR"

\* C40: while the recorder runs, every rising edge appends exactly one
\* sample and nothing else changes the samples; the i-th sample carries
\* cycle index i from 0; and a sample has an entry for every configured
\* name: the integer read, the string form of an unresolved value, or
\* "ERR" for a signal that cannot be read.
C40_OneSamplePerEdge ==
    [][(harness = "trace") =>
          LET n == Len(recorder.samples) IN
          /\ (cycle' = cycle + 1 /\ recorder'.task = "running") =>
                Len(recorder'.samples) = n + 1
          /\ (cycle' = cycle) => recorder'.samples = recorder.samples
          /\ Len(recorder'.samples) \in {n, n + 1}
          /\ \A k \in 1..n : recorder'.samples[k] = recorder.samples[k]
          /\ (Len(recorder'.samples) = n + 1) => SampledNow(n + 1)
          /\ recorder'.cycle = Len(recorder'.samples)]_vars

\* Three edges were sampled, the last with an unresolved value and a
\* signal that cannot be read.
C40_Witness ==
    /\ harness = "trace" /\ pc = "body" /\ cycle = 3 /\ Len(recorder.samples) = 3
    /\ recorder.signal_names = <<"mem", "m_tdata">>
    /\ recorder.samples[3]["cycle"].int = 2
    /\ recorder.samples[3]["mem"].str = "ERR"
    /\ recorder.samples[3]["m_tdata"].str = "x"
    /\ recorder.samples[1]["m_tdata"].int = 3

\* ---------------------------------------------------------------- C31
\* C31: on the frame the diagonal-suppression test builds, at every
\* configured image width, the centre sample of magnitude 100 between the
\* neighbours 255 and 50 is output as 0 and the neighbour holding 255 is
\* output unchanged.
C31_DiagonalSuppression ==
    (harness = "nms_diag" /\ pc \in {"passed", "failed"}) =>
        LET centre == DiagCentre(img_width)
            at(r, c) == outputs[r * img_width + c + 1].data
        IN  /\ err = "none"
            /\ image[centre[1]][centre[2]] = 100
            /\ image[centre[1] - 1][centre[2] + 1] = 255
            /\ image[centre[1] + 1][centre[2] - 1] = 50
            /\ at(centre[1], centre[2]) = 0
            /\ at(centre[1] - 1, centre[2] + 1) = 255

\* ---------------------------------------------------------------- C32
\* C32: the backpressure test goes on past the edge that follows the
\* lowering of m_tready exactly when the pipeline's s_tready is low at that
\* edge, and passes exactly when s_tready is high again at the edge that
\* follows the return of m_tready; with any other pipeline it fails.
C32_ReadyFollowsConsumer ==
    [][(harness = "backpressure") =>
          /\ (pc = "stall") =>
                /\ dut.m_tready = 0
                /\ (pc' = "release") <=> (dut'.s_tready = 0)
                /\ pc' \in {"release", "failed"}
          /\ (pc = "release") =>
                /\ dut.m_tready = 1
                /\ (pc' = "passed") <=> (dut'.s_tready = 1)
                /\ pc' \in {"passed", "failed"}
          /\ (pc' = "passed") => (pc = "release")]_vars

\* The test passed: ready was low after the stall and is high after the
\* release.
C32_Witness ==
    /\ harness = "backpressure" /\ pc = "passed" /\ i = StreamCycles
    /\ dut.s_tready = 1 /\ dut.m_tready = 1

====
